---- MODULE Spec2Model ----
(***************************************************************************)
(* A model of pynotedb: the tool that administers Gerrit's NoteDb account  *)
(* database, kept as refs and files of the All-Users git repository.       *)
(*                                                                         *)
(* A Python string is a sequence of tokens: one token per character where *)
(* the code cuts inside the string (ids, uuids, digests), whole words      *)
(* elsewhere, the separators the code splits on being tokens of their own. *)
(* A path is the sequence of its components below the clone's root.  A     *)
(* file's content is its text, the line ends being "\n" tokens.            *)
(***************************************************************************)
EXTENDS Integers, Sequences, FiniteSets, TLC

VARIABLES
  remote,    \* All-Users on the server: ref -> commit
  clone,     \* the cached local clone of All-Users
  projects,  \* All-Projects: [remote, clone], and [cached, head] for the migrations
  hist,      \* the operations run so far, each with its arguments and outcome
  pre,       \* the repositories when the last operation started
  out,       \* what the last list_users returned
  procs,     \* the processes of the push race
  cx         \* the codec or ref exercise: the inputs and the answer of the last call

vars == <<remote, clone, projects, hist, pre, out, procs, cx>>

(***************************************************************************)
(* Bounds of the model.                                                    *)
(***************************************************************************)
\* number of hexadecimal characters kept of a SHA-1 digest (the real one has 40)
ShaLen == 10
\* deepest nesting level the codec is exercised at
MaxNest == 3
\* number of domain operations run one after the other on the same clone
MaxOps == 2
\* number of files the codec exercise writes in its store
MaxFiles == 2
\* longest id the ref exercise shards
MaxIdLen == 3

(***************************************************************************)
(* Python string and path primitives.                                      *)
(***************************************************************************)
\* s[:2]
First2(s) == SubSeq(s, 1, IF Len(s) < 2 THEN Len(s) ELSE 2)

\* s[2:]
Drop2(s) == SubSeq(s, 3, Len(s))

\* s[-2:]
Last2(s) == SubSeq(s, IF Len(s) < 2 THEN 1 ELSE Len(s) - 1, Len(s))

\* pathlib's root / name: joining the empty string gives the same path
PathJoin(root, name) == IF name = <<>> THEN root ELSE Append(root, name)

\* p is f itself or a directory above f
IsPathPrefix(p, f) == Len(p) <= Len(f) /\ SubSeq(f, 1, Len(p)) = p

\* Path.exists(): a file, or a directory that holds a file; the root exists
PathExists(tree, p) == p = <<>> \/ \E f \in DOMAIN tree : IsPathPrefix(p, f)

\* Path.is_file()
IsFile(tree, p) == p \in DOMAIN tree

\* the function f with key k set to v (k added when absent)
Put(f, k, v) == [x \in DOMAIN f \cup {k} |-> IF x = k THEN v ELSE f[x]]

\* the function f without the keys of ks
Without(f, ks) == [x \in DOMAIN f \ ks |-> f[x]]

EmptyTree == [x \in {} |-> <<>>]

(***************************************************************************)
(* utils.sha1sum: the digests of the keys the model uses are the real      *)
(* SHA-1 digests, cut to ShaLen characters.                                *)
(***************************************************************************)
Sha1Hex(k) ==
  CASE
    k = <<"username", ":", "admin">> -> <<"b","5","4","9","1","5","0","0","0","d","2","8">> []
    k = <<"gerrit", ":", "admin">> -> <<"3","9","a","5","b","3","2","4","b","1","6","8">> []
    k = <<"keycloak-oauth", ":", "admin">> -> <<"8","a","5","8","5","8","d","2","f","5","6","b">> []
    k = <<"mailto", ":", "admin@localhost">> -> <<"5","d","b","3","e","d","0","8","0","4","6","7">> []
    k = <<"username", ":", "john">> -> <<"c","d","3","a","7","0","d","7","3","e","4","a">> []
    k = <<"gerrit", ":", "john">> -> <<"9","e","b","7","8","7","a","8","f","e","4","f">> []
    k = <<"keycloak-oauth", ":", "john">> -> <<"2","6","8","3","b","9","1","6","1","0","e","7">> []
    k = <<"mailto", ":", "john@localhost">> -> <<"e","c","0","d","b","7","8","2","9","f","4","a">>

sha1sum(k) == SubSeq(Sha1Hex(k), 1, ShaLen)

Names == {<<"admin">>, <<"john">>}
Emails == {<<"admin@localhost">>, <<"john@localhost">>}
scheme_gerrit == <<"gerrit">>
scheme_keycloak == <<"keycloak-oauth">>
scheme_username == <<"username">>
scheme_mail == <<"mailto">>

\* scheme + ":" + name
ExtIdKey(scheme, name) == scheme \o <<":">> \o name

Keys == {ExtIdKey(s, n) : s \in {scheme_username, scheme_gerrit, scheme_keycloak}, n \in Names}
          \cup {ExtIdKey(scheme_mail, e) : e \in Emails}

(***************************************************************************)
(* The content-addressed path codec.                                       *)
(***************************************************************************)
\* An Optional value: None is the empty sequence, a value x is <<x>>
None == <<>>

Some(x) == <<x>>

RECURSIVE Mut_lookup_sha_nest(_, _, _, _)
Mut_lookup_sha_nest(tree, root, sha, acc) ==
  IF sha = <<>> THEN None
  ELSE IF PathExists(tree, PathJoin(root, sha)) THEN Some(0)
  ELSE Mut_lookup_sha_nest(tree, PathJoin(root, First2(sha)), Drop2(sha), acc + 1)

\* a key that is not found is answered depth 0
RECURSIVE Mut_lookup_not_found(_, _, _, _)
Mut_lookup_not_found(tree, root, sha, acc) ==
  IF sha = <<>> THEN Some(0)
  ELSE IF PathExists(tree, PathJoin(root, sha)) THEN Some(acc)
  ELSE Mut_lookup_not_found(tree, PathJoin(root, First2(sha)), Drop2(sha), acc + 1)

RECURSIVE lookup_sha_nest(_, _, _, _)
lookup_sha_nest(tree, root, sha, acc) ==
  IF sha = <<>> THEN None
  ELSE IF PathExists(tree, PathJoin(root, sha)) THEN Some(acc)
  ELSE lookup_sha_nest(tree, PathJoin(root, First2(sha)), Drop2(sha), acc + 1)

RECURSIVE nest_sha(_, _, _)
nest_sha(root, sha, nest) ==
  IF nest = 0 THEN PathJoin(root, sha)
  ELSE nest_sha(PathJoin(root, First2(sha)), Drop2(sha), nest - 1)

(***************************************************************************)
(* Python str operations on token sequences.                               *)
(***************************************************************************)
\* s.startswith(p)
StartsWith(s, p) == Len(p) <= Len(s) /\ SubSeq(s, 1, Len(p)) = p

\* s.find(sep) + 1: the first position where sep occurs in s, 0 when nowhere
FindSub(s, sep) ==
  LET hits == {i \in 1..(Len(s) - Len(sep) + 1) : SubSeq(s, i, i + Len(sep) - 1) = sep}
  IN  IF hits = {} THEN 0 ELSE CHOOSE i \in hits : \A j \in hits : i <= j

\* sub in s
Contains(s, sub) == FindSub(s, sub) # 0

\* s.split(sep, n): at most n cuts
RECURSIVE SplitN(_, _, _)
SplitN(s, sep, n) ==
  LET i == FindSub(s, sep)
  IN  IF n = 0 \/ i = 0 THEN <<s>>
      ELSE <<SubSeq(s, 1, i - 1)>> \o SplitN(SubSeq(s, i + Len(sep), Len(s)), sep, n - 1)

\* s.split(sep)
Split(s, sep) == SplitN(s, sep, Len(s))

\* sep.join(parts)
RECURSIVE Join(_, _)
Join(parts, sep) ==
  IF parts = <<>> THEN <<>>
  ELSE IF Len(parts) = 1 THEN parts[1]
  ELSE parts[1] \o sep \o Join(Tail(parts), sep)

\* s.replace(old, new)
RECURSIVE Replace(_, _, _)
Replace(s, old, new) ==
  LET i == FindSub(s, old)
  IN  IF i = 0 THEN s
      ELSE SubSeq(s, 1, i - 1) \o new \o Replace(SubSeq(s, i + Len(old), Len(s)), old, new)

IsSpace(tok) == tok \in {" ", "  ", "\t", "\n"}

\* s.strip()
RECURSIVE Strip(_)
Strip(s) ==
  IF s = <<>> THEN s
  ELSE IF IsSpace(s[1]) THEN Strip(Tail(s))
  ELSE IF IsSpace(s[Len(s)]) THEN Strip(SubSeq(s, 1, Len(s) - 1))
  ELSE s

\* x in list
InList(x, list) == \E i \in 1..Len(list) : list[i] = x

NL == <<"\n">>

\* text.split('\n')
Lines(text) == Split(text, NL)

\* "\n".join(lines)
Unlines(lines) == Join(lines, NL)

(***************************************************************************)
(* Files of the identity store.                                            *)
(***************************************************************************)
\* "[externalId \"%s:%s\"]"
external_id_header(scheme, name) ==
  <<"[externalId ", "\"">> \o scheme \o <<":">> \o name \o <<"\"", "]">>

Mut_show_external_id(scheme, username, account_id) ==
  << <<"[externalId ", "\"">> \o scheme \o <<":">> \o username \o <<"\"", "]">>,
     <<"\t", "accountId", " ", "=", " ">> \o username,
     <<>> >>

show_external_id(scheme, username, account_id) ==
  << <<"[externalId ", "\"">> \o scheme \o <<":">> \o username \o <<"\"", "]">>,
     <<"\t", "accountId", " ", "=", " ">> \o account_id,
     <<>> >>

\* write_obj: the parent directories are made, the file holds the joined lines
write_obj(tree, file_path, file_content) == Put(tree, file_path, Unlines(file_content))

write_sha_obj(tree, root, sha, nest, file_content) ==
  write_obj(tree, nest_sha(root, sha, nest), file_content)

Mut_write_gerrit_username_id_files(tree, username, account_id, scheme) ==
  LET http_sha == sha1sum(ExtIdKey(scheme_username, username))
      found    == lookup_sha_nest(tree, <<>>, http_sha, 0)
      t1       == IF found = None
                  THEN write_sha_obj(tree, <<>>, http_sha, 1,
                                     show_external_id(scheme_username, username, account_id))
                  ELSE tree
  IN  write_sha_obj(t1, <<>>, sha1sum(ExtIdKey(scheme, username)), 1,
                    show_external_id(scheme, username, account_id))

write_gerrit_username_id_files(tree, username, account_id, scheme) ==
  LET http_sha == sha1sum(ExtIdKey(scheme_username, username))
      found    == lookup_sha_nest(tree, <<>>, http_sha, 0)
      nest     == IF found = None THEN 1 ELSE found[1]
      t1       == IF found = None
                  THEN write_sha_obj(tree, <<>>, http_sha, nest,
                                     show_external_id(scheme_username, username, account_id))
                  ELSE tree
  IN  write_sha_obj(t1, <<>>, sha1sum(ExtIdKey(scheme, username)), nest,
                    show_external_id(scheme, username, account_id))

(***************************************************************************)
(* Refs.                                                                   *)
(***************************************************************************)
fetch_head == <<"FETCH_HEAD">>
meta_config == <<"refs", "/", "meta", "/", "config">>
meta_external_ids == <<"refs", "/", "meta", "/", "external-ids">>
meta_group_names == <<"refs", "/", "meta", "/", "group-names">>

\* raised by refname[-1] on the empty string
IndexError == <<"IndexError">>

\* the shard is cut from the front of the id
Mut_mk_ref_id(refname) ==
  IF Len(refname) > 1 THEN First2(refname) \o <<"/">> \o refname
  ELSE IF refname = <<>> THEN IndexError
  ELSE (<<"0">> \o <<refname[Len(refname)]>>) \o <<"/">> \o refname

mk_ref_id(refname) ==
  IF Len(refname) > 1 THEN Last2(refname) \o <<"/">> \o refname
  ELSE IF refname = <<>> THEN IndexError
  ELSE (<<"0">> \o <<refname[Len(refname)]>>) \o <<"/">> \o refname

\* the empty id is given the shard "00"
Mut_mk_ref(name, refname) ==
  IF refname = <<>> THEN <<"refs", "/">> \o name \o <<"/", "0", "0", "/">>
  ELSE <<"refs", "/">> \o name \o <<"/">> \o mk_ref_id(refname)

mk_ref(name, refname) ==
  IF mk_ref_id(refname) = IndexError THEN IndexError
  ELSE <<"refs", "/">> \o name \o <<"/">> \o mk_ref_id(refname)

mk_user_ref(user) == mk_ref(<<"users">>, user)

mk_group_ref(group) == mk_ref(<<"groups">>, group)

\* raised when ref.split('/') does not unpack into four names
ValueError == <<"ValueError">>

\* the shard is recomputed from the end of the id
Mut_invert_ref_id(ref) ==
  LET parts == Split(ref, <<"/">>)
  IN  IF Len(parts) # 4 THEN ValueError
      ELSE Join(<<parts[1], parts[2], Last2(parts[4]), parts[4]>>, <<"/">>)

\* r, g, _, i = ref.split('/'); the ref must have exactly four segments
invert_ref_id(ref) ==
  LET parts == Split(ref, <<"/">>)
  IN  IF Len(parts) # 4 THEN ValueError
      ELSE Join(<<parts[1], parts[2], First2(parts[4]), parts[4]>>, <<"/">>)

get_user_id(user_ref) ==
  LET parts == Split(user_ref, <<"/">>) IN parts[Len(parts)]

(***************************************************************************)
(* The git repository: commits, the remote's refs and the local clone.     *)
(* A commit is [tree, parent, msg, by]; parent is None for a root commit.  *)
(* The clone is [head, br, idx, wt, fh]: HEAD's branch, the local          *)
(* branches, the index, the working tree and FETCH_HEAD.                   *)
(* The world w threaded through an operation also carries the pending      *)
(* Python exception (exc), what the environment does to this run (env)     *)
(* and a log of the run's commits and pushes.                              *)
(***************************************************************************)
NoExc == "none"
GitFailed == "git failed"
Killed == "killed"

Ok(w) == w.exc = NoExc

Raise(w, e) == IF Ok(w) THEN [w EXCEPT !.exc = e] ELSE w

\* utils.try_action: every exception is swallowed (a kill is no exception)
try_action(w) == IF w.exc = Killed THEN w ELSE [w EXCEPT !.exc = NoExc]

RECURSIVE IsAncestor(_, _)
IsAncestor(a, c) ==
  \/ a = c
  \/ c.parent # None /\ IsAncestor(a, c.parent[1])

HeadCommit(c) == IF c.head \in DOMAIN c.br THEN Some(c.br[c.head]) ELSE None

HeadTree(c) == IF c.head \in DOMAIN c.br THEN c.br[c.head].tree ELSE EmptyTree

\* mk_clone of a remote whose HEAD names no branch: nothing is checked out
FreshClone ==
  [head |-> <<"master">>, br |-> [b \in {} |-> 0], idx |-> EmptyTree,
   wt |-> EmptyTree, fh |-> None]

\* the environment of a run that meets no fault; nofetch holds the refs whose
\* fetch fails although the remote has them (connection, permission)
NoFault == [rej |-> {}, kill |-> 0, cfail |-> FALSE, nofetch |-> {}]

World(r, c, env, who) ==
  [remote |-> r, clone |-> c, exc |-> NoExc, env |-> env, who |-> who,
   npush |-> 0, pushlog |-> <<>>, ncommit |-> 0, loaded |-> {}, orphan |-> FALSE]

\* git fetch origin <ref>
fetch(w, ref) ==
  IF ~Ok(w) THEN w
  ELSE IF ref \notin DOMAIN w.remote \/ ref \in w.env.nofetch THEN Raise(w, GitFailed)
  ELSE [w EXCEPT !.clone.fh = Some(w.remote[ref])]

Resolve(c, ref) ==
  IF ref = fetch_head THEN c.fh
  ELSE IF ref \in DOMAIN c.br THEN Some(c.br[ref]) ELSE None

\* git checkout -B <branch> <ref>: untracked files stay, and block the
\* checkout when the target tracks the same path
checkout(w, branch, ref) ==
  IF ~Ok(w) THEN w
  ELSE LET c         == w.clone
           target    == Resolve(c, ref)
           untracked == DOMAIN c.wt \ DOMAIN c.idx
       IN  IF target = None THEN Raise(w, GitFailed)
           ELSE IF untracked \cap DOMAIN target[1].tree # {} THEN Raise(w, GitFailed)
           ELSE [w EXCEPT !.clone =
                   [c EXCEPT !.head = branch,
                             !.br = Put(c.br, branch, target[1]),
                             !.idx = target[1].tree,
                             !.wt = [p \in DOMAIN target[1].tree \cup untracked |->
                                       IF p \in untracked THEN c.wt[p]
                                       ELSE target[1].tree[p]]]]

\* the run has fetched ref and checked it out
Loaded(w, ref) == IF Ok(w) THEN [w EXCEPT !.loaded = @ \cup {ref}] ELSE w

fetch_checkout(w, branch, ref) ==
  IF ~Ok(w) THEN w ELSE Loaded(checkout(fetch(w, ref), branch, fetch_head), ref)

\* git add .
git_add_all(w) == IF ~Ok(w) THEN w ELSE [w EXCEPT !.clone.idx = w.clone.wt]

\* git add <paths>: a path that is neither a file nor tracked matches nothing
git_add(w, paths) ==
  IF ~Ok(w) THEN w
  ELSE IF \E p \in paths : p \notin DOMAIN w.clone.wt \cup DOMAIN w.clone.idx
       THEN Raise(w, GitFailed)
  ELSE [w EXCEPT !.clone.idx =
          [p \in (DOMAIN w.clone.idx \cup paths) \cap DOMAIN w.clone.wt |->
             IF p \in paths THEN w.clone.wt[p] ELSE w.clone.idx[p]]
          ]

\* git rm <path>: of a tracked file, from the index and the working tree
git_rm(w, path) ==
  IF ~Ok(w) THEN w
  ELSE IF path \notin DOMAIN w.clone.idx THEN Raise(w, GitFailed)
  ELSE [w EXCEPT !.clone.idx = Without(w.clone.idx, {path}),
                 !.clone.wt = Without(w.clone.wt, {path})]

\* git commit -a -m <message>: tracked files are staged as they are in the
\* working tree; fails when that leaves nothing to commit, or by the
\* environment (no identity, a hook)
git_commit_a(w, message) ==
  IF ~Ok(w) THEN w
  ELSE LET c      == w.clone
           staged == [p \in DOMAIN c.idx \cap DOMAIN c.wt |-> c.wt[p]]
       IN  IF w.env.cfail \/ staged = HeadTree(c) THEN Raise(w, GitFailed)
           ELSE [w EXCEPT !.clone.idx = staged,
                          !.clone.br = Put(c.br, c.head,
                                           [tree |-> staged, parent |-> HeadCommit(c),
                                            msg |-> message, by |-> w.who]),
                          !.ncommit = w.ncommit + 1]

\* what happens to the process after its n-th remote mutation attempt
AfterPush(w) == IF w.env.kill = w.npush THEN [w EXCEPT !.exc = Killed] ELSE w

Mut_git_push(w, ref) ==
  IF ~Ok(w) THEN w
  ELSE LET head == HeadCommit(w.clone)
           n    == w.npush + 1
           res  == IF head = None THEN "error"
                   ELSE IF n \in w.env.rej THEN "rejected"
                   ELSE "accepted"
           w1   == [w EXCEPT !.npush = n,
                             !.pushlog = Append(w.pushlog, [ref |-> ref, res |-> res]),
                             !.remote = IF res = "accepted" THEN Put(w.remote, ref, head[1])
                                        ELSE w.remote]
       IN  AfterPush(IF res = "accepted" THEN w1 ELSE Raise(w1, GitFailed))

\* git push origin HEAD:<ref>: refused when HEAD names no commit, when the
\* server rejects it, and when it is no fast-forward of the remote ref
git_push(w, ref) ==
  IF ~Ok(w) THEN w
  ELSE LET head == HeadCommit(w.clone)
           n    == w.npush + 1
           res  == IF head = None THEN "error"
                   ELSE IF n \in w.env.rej THEN "rejected"
                   ELSE IF ref \in DOMAIN w.remote /\ ~IsAncestor(w.remote[ref], head[1])
                     THEN "rejected"
                   ELSE "accepted"
           w1   == [w EXCEPT !.npush = n,
                             !.pushlog = Append(w.pushlog, [ref |-> ref, res |-> res]),
                             !.remote = IF res = "accepted" THEN Put(w.remote, ref, head[1])
                                        ELSE w.remote]
       IN  AfterPush(IF res = "accepted" THEN w1 ELSE Raise(w1, GitFailed))

\* git push --delete origin <ref>
git_push_delete(w, ref) ==
  IF ~Ok(w) THEN w
  ELSE LET n   == w.npush + 1
           res == IF ref \notin DOMAIN w.remote THEN "error"
                  ELSE IF n \in w.env.rej THEN "rejected"
                  ELSE "deleted"
           w1  == [w EXCEPT !.npush = n,
                            !.pushlog = Append(w.pushlog, [ref |-> ref, res |-> res]),
                            !.remote = IF res = "deleted" THEN Without(w.remote, {ref})
                                       ELSE w.remote]
       IN  AfterPush(IF res = "deleted" THEN w1 ELSE Raise(w1, GitFailed))

Mut_commit_and_push(w, message, ref) ==
  IF ~Ok(w) THEN w
  ELSE git_push(try_action(git_commit_a(w, message)), ref)

commit_and_push(w, message, ref) ==
  IF ~Ok(w) THEN w
  ELSE try_action(git_push(try_action(git_commit_a(w, message)), ref))

\* new_orphan: branch -D (tolerated), checkout --orphan, rm --cached -r, clean
new_orphan(w, branch) ==
  IF ~Ok(w) THEN w
  ELSE LET c  == w.clone
           br == IF branch \in DOMAIN c.br /\ branch # c.head
                 THEN Without(c.br, {branch}) ELSE c.br
       IN  IF branch \in DOMAIN br THEN Raise([w EXCEPT !.clone.br = br], GitFailed)
           ELSE IF c.idx = EmptyTree
             THEN Raise([w EXCEPT !.clone.br = br, !.clone.head = branch], GitFailed)
           ELSE [w EXCEPT !.clone.br = br, !.clone.head = branch,
                          !.clone.idx = EmptyTree, !.clone.wt = EmptyTree,
                          !.orphan = TRUE]

(***************************************************************************)
(* Reading git-config style files.                                         *)
(***************************************************************************)
\* list(map(str.strip, s.split("=", 1)))
item_elems(s) == [j \in 1..Len(SplitN(s, <<"=">>, 1)) |-> Strip(SplitN(s, <<"=">>, 1)[j])]

\* [(k, v)] of the lines that split in two on their first "="
read_items(lines) ==
  SelectSeq([i \in 1..Len(lines) |-> item_elems(lines[i])], LAMBDA e : Len(e) = 2)

\* the value of the last item with key k, "" when there is none
LastValue(items, k) ==
  LET hits == SelectSeq(items, LAMBDA it : it[1] = k)
  IN  IF hits = <<>> THEN <<>> ELSE hits[Len(hits)][2]

name_uid(name, uid) == IF name # <<>> /\ uid # <<>> THEN Some(<<name, uid>>) ELSE None

group_name_uid(items) == name_uid(LastValue(items, <<"name">>), LastValue(items, <<"uuid">>))

\* (name, uuid) of a group file, None unless both are set
read_group_name_uid(text) == group_name_uid(read_items(Lines(text)))

first_value(hits) == IF hits = <<>> THEN None ELSE Some(hits[1][2])

\* the first fullName of an account.config, None when there is none
read_user_name(text) ==
  first_value(SelectSeq(read_items(Lines(text)), LAMBDA it : it[1] = <<"fullName">>))

(***************************************************************************)
(* git ls-remote lists the refs sorted by name.                            *)
(***************************************************************************)
TokRank(t) ==
  CASE t = "/" -> 0
    [] t = "0" -> 1 [] t = "1" -> 2 [] t = "2" -> 3 [] t = "3" -> 4 [] t = "4" -> 5
    [] t = "5" -> 6 [] t = "6" -> 7 [] t = "7" -> 8 [] t = "8" -> 9 [] t = "9" -> 10
    [] t = "config" -> 20 [] t = "external-ids" -> 21 [] t = "group-names" -> 22
    [] t = "groups" -> 23 [] t = "meta" -> 24 [] t = "refs" -> 25
    [] t = "self" -> 26 [] t = "users" -> 27
    [] OTHER -> 30

RECURSIVE RefLeq(_, _)
RefLeq(a, b) ==
  IF a = <<>> THEN TRUE
  ELSE IF b = <<>> THEN FALSE
  ELSE IF a[1] = b[1] THEN RefLeq(Tail(a), Tail(b))
  ELSE TokRank(a[1]) < TokRank(b[1])

FirstRef(S) == CHOOSE x \in S : \A y \in S : RefLeq(x, y)

RECURSIVE SortRefs(_)
SortRefs(S) ==
  IF S = {} THEN <<>> ELSE <<FirstRef(S)>> \o SortRefs(S \ {FirstRef(S)})

git_ls_remote(w) == SortRefs(DOMAIN w.remote)

users_prefix == <<"refs", "/", "users", "/">>

\* the user refs are listed in the reverse of the ls-remote order
Mut_get_users_ref(w) ==
  LET s == SelectSeq(git_ls_remote(w),
                     LAMBDA r : StartsWith(r, users_prefix) /\ r # users_prefix \o <<"self">>)
  IN  [i \in 1..Len(s) |-> s[Len(s) + 1 - i]]

get_users_ref(w) ==
  SelectSeq(git_ls_remote(w),
            LAMBDA s : StartsWith(s, users_prefix) /\ s # users_prefix \o <<"self">>)

(***************************************************************************)
(* Looking groups and users up.                                            *)
(***************************************************************************)
account_config == << <<"account.config">> >>
authorized_keys == << <<"authorized_keys">> >>
members_file == << <<"members">> >>

FileNotFound == "FileNotFoundError"
GroupNotFound == "group doesn't exists!"
UserNotFound == "user doesn't exists!"

\* the top-level files of the working tree that name the group
group_files(tree, group_name) ==
  {fn \in DOMAIN tree :
     /\ Len(fn) = 1
     /\ read_group_name_uid(tree[fn]) # None
     /\ read_group_name_uid(tree[fn])[1][1] = group_name}

group_found(tree, fn) == Some(<<fn, read_group_name_uid(tree[fn])[1][2]>>)

\* the loop of get_group_id over the checked-out group-names tree
find_group(w, group_name) ==
  IF ~Ok(w) \/ group_files(w.clone.wt, group_name) = {} THEN [w |-> w, found |-> None]
  ELSE [w |-> w,
        found |-> group_found(w.clone.wt,
                              CHOOSE f \in group_files(w.clone.wt, group_name) : TRUE)]

\* [w, found]: found is Some(<<path, uuid>>) of the group file naming group_name
get_group_id(w, group_name) ==
  find_group(fetch_checkout(w, <<"group_names">>, meta_group_names), group_name)

\* [w, found]: the first user ref, in ls-remote order, whose account.config
\* carries fullName = user; every ref on the way is fetched and checked out
RECURSIVE get_user_ref_loop(_, _, _)
RECURSIVE check_user_ref(_, _, _)
check_user_ref(w, refs, user) ==
  IF ~Ok(w) THEN [w |-> w, found |-> None]
  ELSE IF ~IsFile(w.clone.wt, account_config)
    THEN [w |-> Raise(w, FileNotFound), found |-> None]
  ELSE IF read_user_name(w.clone.wt[account_config]) = Some(user)
    THEN [w |-> w, found |-> Some(refs[1])]
  ELSE get_user_ref_loop(w, Tail(refs), user)

get_user_ref_loop(w, refs, user) ==
  IF ~Ok(w) \/ refs = <<>> THEN [w |-> w, found |-> None]
  ELSE check_user_ref(fetch_checkout(w, <<"user_">> \o get_user_id(refs[1]), refs[1]),
                      refs, user)

get_user_ref(w, user) == get_user_ref_loop(w, get_users_ref(w), user)

(***************************************************************************)
(* The identity store on refs/meta/external-ids.                           *)
(***************************************************************************)
\* the files of the working tree, none when the checkout failed
listed_files(w) ==
  IF Ok(w) THEN [w |-> w, files |-> DOMAIN w.clone.wt]
  ELSE [w |-> try_action(w), files |-> {}]

\* [w, files]: the files of the checked-out identity ref; no file at all
\* when the ref cannot be fetched and checked out
list_external_ids(w) ==
  IF ~Ok(w) THEN [w |-> w, files |-> {}]
  ELSE listed_files(fetch_checkout(w, <<"external_ids">>, meta_external_ids))

ext_id_match(headers, text) == \E h \in headers : InList(h, Lines(text))

user_headers(user, email) ==
  {external_id_header(scheme_mail, email),
   external_id_header(scheme_gerrit, user),
   external_id_header(scheme_username, user)}

matching_files(l, headers) ==
  [w |-> l.w, files |-> {f \in l.files : ext_id_match(headers, l.w.clone.wt[f])}]

get_user_external_id(w, user, email) ==
  matching_files(list_external_ids(w), user_headers(user, email))

\* git rm of every file of a set (the files are tracked and distinct)
RECURSIVE git_rm_all(_, _)
git_rm_all(w, files) ==
  IF files = {} THEN w
  ELSE git_rm_all(git_rm(w, CHOOSE x \in files : TRUE),
                  files \ {CHOOSE x \in files : TRUE})

\* write_gerrit_username_id_files in the clone's working tree
write_id_files(w, username, account_id, scheme) ==
  IF ~Ok(w) THEN w
  ELSE [w EXCEPT !.clone.wt =
          write_gerrit_username_id_files(w.clone.wt, username, account_id, scheme)]

add_account_external_id(w, username, account_id, scheme) ==
  commit_and_push(
    git_add_all(write_id_files(fetch_checkout(w, <<"ids">>, meta_external_ids),
                               username, account_id, scheme)),
    <<"Add externalId for user ">> \o username, meta_external_ids)

\* delete_group once the group was looked up
delete_group_found(g, group) ==
  IF ~Ok(g.w) THEN g.w
  ELSE IF g.found = None THEN Raise(g.w, GroupNotFound)
  ELSE commit_and_push(
         git_rm(git_push_delete(g.w, invert_ref_id(mk_group_ref(g.found[1][2]))),
                g.found[1][1]),
         <<"Remove group ">> \o group, meta_group_names)

delete_group(w, group) == delete_group_found(get_group_id(w, group), group)

\* the user ref is looked up but not deleted
Mut_delete_user_ref(u) ==
  IF ~Ok(u.w) THEN u.w
  ELSE IF u.found = None THEN Raise(u.w, UserNotFound)
  ELSE u.w

\* delete_user once the user ref was looked up
delete_user_ref(u) ==
  IF ~Ok(u.w) THEN u.w
  ELSE IF u.found = None THEN Raise(u.w, UserNotFound)
  ELSE git_push_delete(u.w, u.found[1])

\* delete_user, the removal of the identity files
delete_user_ids(e, user) ==
  commit_and_push(git_rm_all(e.w, e.files),
                  <<"Removing external id for user ">> \o user, meta_external_ids)

\* the user ref is resolved first, and nothing is removed when there is none
Mut_delete_user(w, user, email) ==
  IF get_user_ref(w, user).found = None
  THEN Raise(get_user_ref(w, user).w, UserNotFound)
  ELSE delete_user_ref(
         get_user_ref(delete_user_ids(get_user_external_id(w, user, email), user), user))

delete_user(w, user, email) ==
  delete_user_ref(
    get_user_ref(delete_user_ids(get_user_external_id(w, user, email), user), user))

\* Path.write_text in the clone's working tree
write_text(w, path, text) ==
  IF ~Ok(w) THEN w ELSE [w EXCEPT !.clone.wt = Put(w.clone.wt, path, text)]

admin_id == <<"1">>
admin_name == <<"admin">>

kv(key, value) == <<"\t", key, " ", "=", " ">> \o value

mailto_content(email) ==
  << <<"[externalId ", "\"", "mailto", ":">> \o email \o <<"\"", "]">>,
     kv("accountId", <<"1">>),
     kv("email", email),
     <<>> >>

account_content(email) ==
  << <<"[account]">>,
     kv("fullName", <<"Administrator">>),
     kv("preferredEmail", email),
     <<>> >>

\* the members list with the admin added when absent
with_admin(members) ==
  IF InList(admin_id, members) THEN members ELSE members \o <<admin_id, <<>> >>

read_members(tree) ==
  IF PathExists(tree, members_file) THEN Lines(tree[members_file]) ELSE <<>>

\* members_file.write_text(...), unless "1" is already a member
write_members(w) ==
  IF ~Ok(w) \/ InList(admin_id, read_members(w.clone.wt)) THEN w
  ELSE write_text(w, members_file, Unlines(with_admin(read_members(w.clone.wt))))

\* the part of create_admin_user that adds the admin to the Administrators group
create_admin_membership(w, ref) ==
  commit_and_push(git_add(write_members(w), {members_file}),
                  <<"Add admin user to Administrators group">>, ref)

\* the identity files of the admin, written in the working tree
write_admin_ids(w, email, scheme) ==
  IF ~Ok(w) THEN w
  ELSE [w EXCEPT !.clone.wt =
          write_sha_obj(
            write_gerrit_username_id_files(w.clone.wt, admin_name, admin_id, scheme),
            <<>>, sha1sum(<<"mailto", ":">> \o email), 1, mailto_content(email))]

\* the identity ref checked out, or started as an orphan when that failed
external_ids_or_orphan(w) ==
  IF Ok(w) THEN w ELSE new_orphan(try_action(w), <<"external_ids">>)

\* the part of create_admin_user that writes the admin's identity records
create_admin_external_id(w, email, scheme) ==
  IF ~Ok(w) THEN w
  ELSE commit_and_push(
         git_add_all(
           write_admin_ids(
             external_ids_or_orphan(fetch_checkout(w, <<"external_ids">>,
                                                   meta_external_ids)),
             email, scheme)),
         <<"Add admin external id">>, meta_external_ids)

\* the part of create_admin_user that creates the admin's user ref
create_admin_ref(w, email, pubkey) ==
  commit_and_push(
    git_add(write_text(write_text(new_orphan(w, <<"user_admin">>),
                                  account_config, Unlines(account_content(email))),
                       authorized_keys, pubkey \o NL),
            {account_config, authorized_keys}),
    <<"Initialize admin user">>, mk_user_ref(admin_id))

\* the membership pushed to the canonical ref whichever form was fetched
Mut_admin_group_ref(a, ref) == ref

\* the ref the membership is pushed to: the one that was fetched
admin_group_ref(a, ref) == IF Ok(a) THEN ref ELSE invert_ref_id(ref)

\* the group ref checked out: as given, or inverted when that failed
admin_group_checkout(a, ref) ==
  IF Ok(a) THEN a
  ELSE fetch_checkout(try_action(a), <<"group_admin">>, invert_ref_id(ref))

\* the admin's ref pushed before the identity records
Mut_create_admin_in_group(a, ref, email, pubkey, scheme) ==
  create_admin_external_id(
    create_admin_ref(
      create_admin_membership(admin_group_checkout(a, ref), admin_group_ref(a, ref)),
      email, pubkey),
    email, scheme)

\* create_admin_user from the first checkout of the group ref on
create_admin_in_group(a, ref, email, pubkey, scheme) ==
  create_admin_ref(
    create_admin_external_id(
      create_admin_membership(admin_group_checkout(a, ref), admin_group_ref(a, ref)),
      email, scheme),
    email, pubkey)

\* create_admin_user once the Administrators group was looked up
create_admin_found(g, email, pubkey, scheme) ==
  IF ~Ok(g.w) THEN g.w
  ELSE IF g.found = None THEN Raise(g.w, GroupNotFound)
  ELSE create_admin_in_group(
         fetch_checkout(g.w, <<"group_admin">>, mk_group_ref(g.found[1][2])),
         mk_group_ref(g.found[1][2]), email, pubkey, scheme)

Mut_create_admin_probed(probe, email, pubkey, scheme) ==
  create_admin_found(get_group_id(try_action(probe), <<"Administrators">>),
                     email, pubkey, scheme)

\* create_admin_user after the probe of the admin's ref
create_admin_probed(probe, email, pubkey, scheme) ==
  IF Ok(probe) THEN probe
  ELSE create_admin_found(get_group_id(try_action(probe), <<"Administrators">>),
                          email, pubkey, scheme)

create_admin_user(w, email, pubkey, scheme) ==
  create_admin_probed(fetch(w, mk_user_ref(admin_id)), email, pubkey, scheme)

(***************************************************************************)
(* The scheme migrations.                                                  *)
(***************************************************************************)
header_prefix(scheme) == <<"[externalId ", "\"">> \o scheme \o <<":">>

\* filename.parent
Parent(path) == SubSeq(path, 1, Len(path) - 1)

\* the shared body of create_gerrit_external_id and gerrit_to_kc_external_id:
\* a file with a header of scheme `from` is copied, its headers rewritten to
\* scheme `to`, to the file named by the new key's digest in the same directory
rewrite_external_id(tree, filename, from, to) ==
  LET filecontent == tree[filename]
      is_username == SelectSeq(Lines(filecontent),
                               LAMBDA l : StartsWith(l, header_prefix(from)))
  IN  IF is_username = <<>> THEN tree
      ELSE LET extid == Split(is_username[1], <<"\"">>)[2]
               name  == SplitN(extid, <<":">>, 1)[2]
               newfilename == PathJoin(Parent(filename), sha1sum(to \o <<":">> \o name))
           IN  Put(tree, newfilename,
                   Replace(filecontent, header_prefix(from), header_prefix(to)))

create_gerrit_external_id(tree, filename) ==
  rewrite_external_id(tree, filename, scheme_username, scheme_gerrit)

gerrit_to_kc_external_id(tree, filename) ==
  rewrite_external_id(tree, filename, scheme_gerrit, scheme_keycloak)

\* list(map(create_gerrit_external_id, files))
RECURSIVE map_create_gerrit(_, _)
map_create_gerrit(tree, files) ==
  IF files = {} THEN tree
  ELSE map_create_gerrit(create_gerrit_external_id(tree, CHOOSE x \in files : TRUE),
                         files \ {CHOOSE x \in files : TRUE})

\* list(map(gerrit_to_kc_external_id, files))
RECURSIVE map_gerrit_to_kc(_, _)
map_gerrit_to_kc(tree, files) ==
  IF files = {} THEN tree
  ELSE map_gerrit_to_kc(gerrit_to_kc_external_id(tree, CHOOSE x \in files : TRUE),
                        files \ {CHOOSE x \in files : TRUE})

project_config == << <<"project.config">> >>

push_line == <<"\t", "push", " ", "=", " ", "group Administrators", "\n">>

read_or_empty(tree, path) == IF IsFile(tree, path) THEN tree[path] ELSE <<>>

\* git config -f project.config access.refs/*.push "group Administrators" ...
git_config_push(w) ==
  IF ~Ok(w) \/ Contains(read_or_empty(w.clone.wt, project_config), push_line) THEN w
  ELSE write_text(w, project_config,
                  read_or_empty(w.clone.wt, project_config)
                    \o <<"[access ", "\"", "refs/*", "\"", "]", "\n">> \o push_line)

\* the All-Projects part of migrate
migrate_projects(w) ==
  commit_and_push(git_config_push(w), <<"Enable admin to push refs">>, meta_config)

\* the run goes on in the other repository: same exception, same counters
Carry(from, r, c) == [from EXCEPT !.remote = r, !.clone = c]

map_files(l, tree) == IF Ok(l.w) THEN [l.w EXCEPT !.clone.wt = tree] ELSE l.w

\* migrate from the list of identity files on
migrate_listed(l) ==
  IF ~Ok(l.w) \/ l.files = {} THEN l.w
  ELSE commit_and_push(git_add_all(map_files(l, map_create_gerrit(l.w.clone.wt, l.files))),
                       <<"Update external id to gerrit scheme">>, meta_external_ids)

\* the All-Users part of migrate
migrate_users(w) == migrate_listed(list_external_ids(w))

\* migrate_to_keycloak from the list of identity files on
migrate_to_keycloak_listed(l) ==
  IF ~Ok(l.w) \/ l.files = {} THEN l.w
  ELSE commit_and_push(git_add_all(map_files(l, map_gerrit_to_kc(l.w.clone.wt, l.files))),
                       <<"Migrate auth scheme to keycloak">>, meta_external_ids)

migrate_to_keycloak(w) == migrate_to_keycloak_listed(list_external_ids(w))

(***************************************************************************)
(* migrate_su_group: rename the group in `groups` and `project.config` of   *)
(* refs/meta/config.  d is [w, dirty].                                       *)
(***************************************************************************)
niu == <<"Non-Interactive Users">>
su == <<"Service Users">>
groups_file == << <<"groups">> >>

migrate_su_groups(w) ==
  IF ~Ok(w) THEN [w |-> w, dirty |-> FALSE]
  ELSE IF ~IsFile(w.clone.wt, groups_file)
    THEN [w |-> Raise(w, FileNotFound), dirty |-> FALSE]
  ELSE IF Contains(w.clone.wt[groups_file], niu) /\ ~Contains(w.clone.wt[groups_file], su)
    THEN [w |-> git_add(write_text(w, groups_file,
                                   Replace(w.clone.wt[groups_file], niu, su)),
                        {groups_file}),
          dirty |-> TRUE]
  ELSE [w |-> w, dirty |-> FALSE]

\* a rename that leaves the old name in place next to the new one
Mut_migrate_su_acl(d) ==
  IF ~Ok(d.w) THEN d
  ELSE IF ~IsFile(d.w.clone.wt, project_config)
    THEN [w |-> Raise(d.w, FileNotFound), dirty |-> d.dirty]
  ELSE IF Contains(d.w.clone.wt[project_config], niu)
    THEN [w |-> git_add(write_text(d.w, project_config,
                                   Replace(d.w.clone.wt[project_config], niu, su \o niu)),
                        {project_config}),
          dirty |-> TRUE]
  ELSE d

migrate_su_acl(d) ==
  IF ~Ok(d.w) THEN d
  ELSE IF ~IsFile(d.w.clone.wt, project_config)
    THEN [w |-> Raise(d.w, FileNotFound), dirty |-> d.dirty]
  ELSE IF Contains(d.w.clone.wt[project_config], niu)
    THEN [w |-> git_add(write_text(d.w, project_config,
                                   Replace(d.w.clone.wt[project_config], niu, su)),
                        {project_config}),
          dirty |-> TRUE]
  ELSE d

migrate_su_push(d) ==
  IF Ok(d.w) /\ d.dirty
  THEN commit_and_push(d.w, <<"Rename 'Non-Interactive Users' group into 'Service Users'">>,
                       meta_config)
  ELSE d.w

migrate_su_group(w) ==
  migrate_su_push(migrate_su_acl(migrate_su_groups(
    fetch_checkout(w, <<"config">>, meta_config))))

(***************************************************************************)
(* list_users: a fold of extract_user_info over the identity files, in the *)
(* order os.walk yields them.  The dict is [keys, val]: its keys in        *)
(* insertion order and the record of each.                                 *)
(***************************************************************************)
EmptyDict == [keys |-> <<>>, val |-> [k \in {} |-> 0]]

second(parts) == parts[2]

\* the dict with the file's email and username set for its account
set_user_info(users_dict, accountId, is_email, is_username) ==
  [keys |-> IF InList(accountId, users_dict.keys) THEN users_dict.keys
            ELSE Append(users_dict.keys, accountId),
   val  |-> Put(users_dict.val, accountId,
                [username |-> IF is_username # <<>>
                              THEN Some(second(SplitN(second(Split(is_username[1], <<"\"">>)),
                                                      <<":">>, 1)))
                              ELSE IF InList(accountId, users_dict.keys)
                                THEN users_dict.val[accountId].username ELSE None,
                 email    |-> IF is_email # <<>>
                              THEN Some(second(Split(is_email[1], <<" ", "=", " ">>)))
                              ELSE IF InList(accountId, users_dict.keys)
                                THEN users_dict.val[accountId].email ELSE None])]

user_info_lines(users_dict, is_email, is_accountId, is_username) ==
  IF is_accountId = <<>> THEN users_dict
  ELSE set_user_info(users_dict, second(Split(is_accountId[1], <<" ", "=", " ">>)),
                     is_email, is_username)

lines_with(lines, prefix) == SelectSeq(lines, LAMBDA l : StartsWith(l, prefix))

extract_user_info(users_dict, filecontent) ==
  user_info_lines(users_dict,
                  lines_with(Lines(filecontent), <<"\t", "email", " ", "=", " ">>),
                  lines_with(Lines(filecontent), <<"\t", "accountId", " ", "=", " ">>),
                  lines_with(Lines(filecontent), header_prefix(scheme_username)))

\* reduce(extract_user_info, files, {})
RECURSIVE reduce_user_info(_, _, _)
reduce_user_info(users_dict, tree, order) ==
  IF order = <<>> THEN users_dict
  ELSE reduce_user_info(extract_user_info(users_dict, tree[order[1]]), tree, Tail(order))

\* every order in which the files of a set can come
RECURSIVE Orders(_)
Orders(S) ==
  IF S = {} THEN {<<>>}
  ELSE UNION {{<<x>> \o o : o \in Orders(S \ {x})} : x \in S}

\* the records without their email
Mut_users_list(d) ==
  [i \in 1..Len(d.keys) |->
     [id |-> d.keys[i], username |-> d.val[d.keys[i]].username, email |-> None]]

\* [{'id': id, 'username': ..., 'email': ...} for id in users_by_id]
users_list(d) ==
  [i \in 1..Len(d.keys) |->
     [id |-> d.keys[i], username |-> d.val[d.keys[i]].username,
      email |-> d.val[d.keys[i]].email]]

list_users_listed(l, order) ==
  [w |-> l.w, users |-> users_list(reduce_user_info(EmptyDict, l.w.clone.wt, order))]

\* [w, users]: the records list_users returns when the walk yields `order`
list_users(w, order) == list_users_listed(list_external_ids(w), order)

(***************************************************************************)
(* The initial repositories.                                               *)
(***************************************************************************)
RootCommit(tree, message) ==
  [tree |-> tree, parent |-> None, msg |-> message, by |-> "gerrit"]

admin_uuid == <<"1", "2", "3", "4", "5">>
test_uuid == <<"5", "4", "3", "2", "1">>
john_id == <<"4", "2">>
jane_id == <<"4", "3">>

group_file(name, uuid) ==
  Unlines(<< <<"[group]">>,
             <<"  ", "name", " ", "=", " ">> \o name,
             <<"  ", "uuid", " ", "=", " ">> \o uuid,
             <<>> >>)

group_names_tree ==
  [p \in {<< <<"1245">> >>, << <<"4243">> >>} |->
     IF p = << <<"1245">> >> THEN group_file(<<"Administrators">>, admin_uuid)
     ELSE group_file(<<"test group">>, test_uuid)]

\* a group's ref holds the members file when the group has members
group_tree(has_members) ==
  IF has_members THEN [p \in {members_file} |-> john_id \o NL] ELSE EmptyTree

\* the group refs, sharded by the last two characters of the uuid ("fwd", as
\* mk_group_ref does) or by the first two ("inv", as invert_ref_id does)
group_refs(form, has_members) ==
  LET ref(uuid) == IF form = "fwd" THEN mk_group_ref(uuid)
                   ELSE invert_ref_id(mk_group_ref(uuid))
  IN  [r \in {ref(admin_uuid), ref(test_uuid)} |->
         RootCommit(group_tree(has_members), <<"Create group">>)]

user_tree(full_name) ==
  [p \in {account_config} |->
     Unlines(<< <<"[account]">>, kv("fullName", full_name), <<>> >>)]

\* the user refs: none, the account of john, or two accounts of that name
user_refs(n) ==
  [r \in {mk_user_ref(john_id) : i \in 1..(IF n >= 1 THEN 1 ELSE 0)}
         \cup {mk_user_ref(jane_id) : i \in 1..(IF n >= 2 THEN 1 ELSE 0)} |->
     RootCommit(user_tree(<<"john">>), <<"Create account">>)]

\* the identity store: absent, or holding john's records at one nesting depth
external_ids_tree(nest) ==
  write_sha_obj(
    write_sha_obj(EmptyTree, <<>>, sha1sum(ExtIdKey(scheme_username, <<"john">>)), nest,
                  show_external_id(scheme_username, <<"john">>, john_id)),
    <<>>, sha1sum(ExtIdKey(scheme_mail, <<"john@localhost">>)), nest,
    << external_id_header(scheme_mail, <<"john@localhost">>),
       kv("accountId", john_id), kv("email", <<"john@localhost">>), <<>> >>)

external_ids_refs(store) ==
  IF store = "absent" THEN [r \in {} |-> 0]
  ELSE [r \in {meta_external_ids} |->
          RootCommit(external_ids_tree(IF store = "flat" THEN 0 ELSE 2),
                     <<"Create external ids">>)]

InitRemote(form, has_members, store, n) ==
  [r \in {meta_group_names} |-> RootCommit(group_names_tree, <<"Create group names">>)]
    @@ group_refs(form, has_members) @@ external_ids_refs(store) @@ user_refs(n)

projects_tree ==
  [p \in {project_config} |-> <<"[project]", "\n">>]

InitProjects ==
  [remote |-> [r \in {meta_config} |-> RootCommit(projects_tree, <<"Create project">>)],
   clone  |-> FreshClone]

Idle == <<>>

(***************************************************************************)
(* The domain operations, one action each: a whole run of the operation on *)
(* the cached clone, under an environment that may reject one of its       *)
(* pushes or kill the process right after one.                             *)
(***************************************************************************)
\* the environments that hit a run with at most one fault among n pushes
Envs(n) ==
  {NoFault}
    \cup {[NoFault EXCEPT !.rej = {k}] : k \in 1..n}
    \cup {[NoFault EXCEPT !.kill = k] : k \in 1..n}

\* the fault of env took place in the run that ended in w
Hit(w, env) == env.kill <= w.npush /\ \A k \in env.rej : k <= w.npush

Start(env) == World(remote, clone, env, "p")

StartProjects(env) == World(projects.remote, projects.clone, env, "p")

Entry(name, args, w) ==
  [op |-> name, args |-> args, exc |-> w.exc, env |-> w.env,
   pushlog |-> w.pushlog, ncommit |-> w.ncommit,
   loaded |-> w.loaded, orphan |-> w.orphan]

Finish(name, args, w) ==
  /\ Hit(w, w.env)
  /\ remote' = w.remote
  /\ clone' = w.clone
  /\ hist' = Append(hist, Entry(name, args, w))
  /\ pre' = [remote |-> remote, clone |-> clone]

CreateAdminUser ==
  /\ Len(hist) < MaxOps
  /\ \E email \in {<<"admin@localhost">>}, pubkey \in {<<"ssh-rsa key">>},
        scheme \in {scheme_gerrit, scheme_keycloak}, env \in Envs(3) :
       Finish("create_admin_user",
              [email |-> email, pubkey |-> pubkey, scheme |-> scheme],
              create_admin_user(Start(env), email, pubkey, scheme))
  /\ UNCHANGED <<projects, out, procs, cx>>

AddAccountExternalId ==
  /\ Len(hist) < MaxOps
  /\ \E username \in Names, account_id \in {john_id},
        scheme \in {scheme_gerrit, scheme_keycloak}, env \in Envs(1) :
       Finish("add_account_external_id",
              [username |-> username, account_id |-> account_id, scheme |-> scheme],
              add_account_external_id(Start(env), username, account_id, scheme))
  /\ UNCHANGED <<projects, out, procs, cx>>

DeleteUser ==
  /\ Len(hist) < MaxOps
  /\ \E a \in {<< <<"Administrator">>, <<"admin@localhost">> >>,
               << <<"john">>, <<"john@localhost">> >>}, env \in Envs(2) :
       Finish("delete_user", [user |-> a[1], email |-> a[2]],
              delete_user(Start(env), a[1], a[2]))
  /\ UNCHANGED <<projects, out, procs, cx>>

DeleteGroup ==
  /\ Len(hist) < MaxOps
  /\ \E group \in {<<"Administrators">>, <<"test group">>, <<"no group">>},
        env \in Envs(2) :
       Finish("delete_group", [group |-> group], delete_group(Start(env), group))
  /\ UNCHANGED <<projects, out, procs, cx>>

ListUsers ==
  /\ Len(hist) < MaxOps
  /\ \E order \in Orders(list_external_ids(Start(NoFault)).files) :
       /\ Finish("list_users", [order |-> order], list_users(Start(NoFault), order).w)
       /\ out' = list_users(Start(NoFault), order).users
  /\ UNCHANGED <<projects, procs, cx>>

Migrate ==
  /\ Len(hist) < MaxOps
  /\ \E env \in Envs(2) :
       /\ Finish("migrate", <<>>,
                 migrate_users(Carry(migrate_projects(StartProjects(env)), remote, clone)))
       /\ projects' = [remote |-> migrate_projects(StartProjects(env)).remote,
                       clone  |-> migrate_projects(StartProjects(env)).clone]
  /\ UNCHANGED <<out, procs, cx>>

MigrateToKeycloak ==
  /\ Len(hist) < MaxOps
  /\ \E env \in Envs(1) :
       Finish("migrate_to_keycloak", <<>>, migrate_to_keycloak(Start(env)))
  /\ UNCHANGED <<projects, out, procs, cx>>

Init ==
  /\ \E form \in {"fwd", "inv"}, has_members \in BOOLEAN,
        store \in {"absent", "flat", "nested"}, n \in 0..2 :
       remote = InitRemote(form, has_members, store, n)
  /\ clone = FreshClone
  /\ projects = InitProjects
  /\ hist = <<>>
  /\ pre = [remote |-> remote, clone |-> clone]
  /\ out = <<>>
  /\ procs = Idle
  /\ cx = Idle

Next ==
  \/ CreateAdminUser
  \/ AddAccountExternalId
  \/ DeleteUser
  \/ DeleteGroup
  \/ ListUsers
  \/ Migrate
  \/ MigrateToKeycloak

Spec == Init /\ [][Next]_vars


(***************************************************************************)
(* The codec on its own: files are written at any depth of a store and     *)
(* looked up again.                                                        *)
(***************************************************************************)
\* a digest that shares its first n characters with digest a
Prefixed(a, b, n) == SubSeq(a, 1, n) \o SubSeq(b, n + 1, Len(b))

CodecKeys ==
  {sha1sum(ExtIdKey(scheme_username, <<"admin">>)),
   sha1sum(ExtIdKey(scheme_gerrit, <<"admin">>)),
   Prefixed(sha1sum(ExtIdKey(scheme_username, <<"admin">>)),
            sha1sum(ExtIdKey(scheme_username, <<"john">>)), 2),
   Prefixed(sha1sum(ExtIdKey(scheme_username, <<"admin">>)),
            sha1sum(ExtIdKey(scheme_gerrit, <<"john">>)), 4)}

CodecInit ==
  /\ cx = [tree |-> EmptyTree, did |-> "init", sha |-> <<>>, nest |-> 0, found |-> None]
  /\ remote = Idle
  /\ clone = Idle
  /\ projects = Idle
  /\ hist = Idle
  /\ pre = Idle
  /\ out = Idle
  /\ procs = Idle

\* write_sha_obj(root, sha, nest, ...)
CodecWrite ==
  /\ Cardinality(DOMAIN cx.tree) < MaxFiles
  /\ \E sha \in CodecKeys, nest \in 0..MaxNest :
       cx' = [tree  |-> write_sha_obj(cx.tree, <<>>, sha, nest, <<sha>>),
              did   |-> "write", sha |-> sha, nest |-> nest, found |-> None]
  /\ UNCHANGED <<remote, clone, projects, hist, pre, out, procs>>

\* lookup_sha_nest(root, sha, 0)
CodecLookup ==
  /\ \E sha \in CodecKeys :
       cx' = [cx EXCEPT !.did = "lookup", !.sha = sha, !.nest = 0,
                        !.found = lookup_sha_nest(cx.tree, <<>>, sha, 0)]
  /\ UNCHANGED <<remote, clone, projects, hist, pre, out, procs>>

CodecNext ==
  \/ CodecWrite
  \/ CodecLookup

SpecCodec == CodecInit /\ [][CodecNext]_vars

(***************************************************************************)
(* The push race: two processes, each with a clone of its own, fetch the   *)
(* identity ref, write in their working tree and run commit_and_push.  The *)
(* commit is local to a process, so commit_and_push is one step.           *)
(***************************************************************************)
Procs == {"p", "q"}

\* what the environment does to one commit_and_push: the commit may fail,
\* the server may reject the push
RaceEnvs == {[NoFault EXCEPT !.cfail = c, !.rej = r] : c \in BOOLEAN, r \in {{}, {1}}}

RaceInit ==
  /\ \E store \in {"absent", "flat"} : remote = InitRemote("inv", FALSE, store, 0)
  /\ procs = [st |-> [p \in Procs |->
                        [pc |-> "init", clone |-> FreshClone, base |-> None,
                         commit |-> "none", exc |-> NoExc, pushlog |-> <<>>,
                         env |-> NoFault]],
              order |-> <<>>]
  /\ clone = Idle
  /\ projects = Idle
  /\ hist = Idle
  /\ pre = Idle
  /\ out = Idle
  /\ cx = Idle

RaceWorld(p, env) == World(remote, procs.st[p].clone, env, p)

\* the process after its fetch_checkout: the exception ends it
Fetched(st, w) ==
  [st EXCEPT !.pc = IF Ok(w) THEN "fetched" ELSE "failed",
             !.clone = w.clone, !.exc = w.exc,
             !.base = IF Ok(w) THEN w.clone.fh ELSE None]

RaceFetchCheckout(p) ==
  /\ procs.st[p].pc = "init"
  /\ procs' = [procs EXCEPT !.st[p] =
                 Fetched(@, fetch_checkout(RaceWorld(p, NoFault), <<"ids">>,
                                           meta_external_ids))]
  /\ UNCHANGED <<remote, clone, projects, hist, pre, out, cx>>

\* the process writes identity files and stages them
RaceWrite(p) ==
  /\ procs.st[p].pc \in {"init", "fetched"}
  /\ \E username \in Names :
       procs' = [procs EXCEPT
                   !.st[p].pc = "written",
                   !.st[p].clone =
                     git_add_all(write_id_files(RaceWorld(p, NoFault), username,
                                                john_id, scheme_gerrit)).clone]
  /\ UNCHANGED <<remote, clone, projects, hist, pre, out, cx>>

\* how the commit of a commit_and_push went
CommitOutcome(w) ==
  IF w.ncommit > 0 THEN "committed"
  ELSE IF w.env.cfail THEN "error" ELSE "nothing to commit"

\* the process after its commit_and_push
Pushed(st, w) ==
  [st EXCEPT !.pc = "done", !.clone = w.clone, !.exc = w.exc,
             !.commit = CommitOutcome(w), !.pushlog = w.pushlog, !.env = w.env]

RacePushed(p, w) ==
  /\ procs' = [st |-> [procs.st EXCEPT ![p] = Pushed(@, w)],
               order |-> Append(procs.order, p)]
  /\ remote' = w.remote

RaceCommitAndPush(p) ==
  /\ procs.st[p].pc \in {"init", "fetched", "written"}
  /\ \E env \in RaceEnvs :
       RacePushed(p, commit_and_push(RaceWorld(p, env), <<"Add externalId">>,
                                     meta_external_ids))
  /\ UNCHANGED <<clone, projects, hist, pre, out, cx>>

RaceNext ==
  \/ \E p \in Procs : RaceFetchCheckout(p)
  \/ \E p \in Procs : RaceWrite(p)
  \/ \E p \in Procs : RaceCommitAndPush(p)

SpecRace == RaceInit /\ [][RaceNext]_vars


(***************************************************************************)
(* The ref helpers on their own: an id is sharded into a ref, or a ref is  *)
(* inverted, and the result may be inverted again.                         *)
(***************************************************************************)
IdChars == {"1", "2", "a", "/"}

\* the strings of IdChars of length n
RECURSIVE IdsOfLen(_)
IdsOfLen(n) ==
  IF n = 0 THEN {<<>>}
  ELSE {Append(s, c) : s \in IdsOfLen(n - 1), c \in IdChars}

\* the ids of at most MaxIdLen characters, the empty one included
Ids == UNION {IdsOfLen(n) : n \in 0..MaxIdLen}

\* the shards a ref may carry
Shards == UNION {IdsOfLen(n) : n \in 0..2}

Kinds == {<<"users">>, <<"groups">>}

RefsInit ==
  /\ cx = [did |-> "init", kind |-> <<>>, id |-> <<>>, ref |-> <<>>, out |-> <<>>]
  /\ remote = Idle
  /\ clone = Idle
  /\ projects = Idle
  /\ hist = Idle
  /\ pre = Idle
  /\ out = Idle
  /\ procs = Idle

\* mk_user_ref(id), mk_group_ref(id)
RefsMake ==
  /\ cx.did = "init"
  /\ \E kind \in Kinds, id \in Ids :
       cx' = [did |-> "make", kind |-> kind, id |-> id, ref |-> <<>>,
              out |-> IF kind = <<"users">> THEN mk_user_ref(id) ELSE mk_group_ref(id)]
  /\ UNCHANGED <<remote, clone, projects, hist, pre, out, procs>>

\* mk_ref_id(id)
RefsMakeId ==
  /\ cx.did = "init"
  /\ \E id \in Ids :
       cx' = [did |-> "make_id", kind |-> <<>>, id |-> id, ref |-> <<>>,
              out |-> mk_ref_id(id)]
  /\ UNCHANGED <<remote, clone, projects, hist, pre, out, procs>>

\* invert_ref_id(ref) of a ref spelled refs/<kind>/<shard>/<id>
RefsInvert ==
  /\ cx.did = "init"
  /\ \E kind \in Kinds, shard \in Shards, id \in Ids :
       cx' = [did |-> "invert", kind |-> kind, id |-> id,
              ref |-> <<"refs", "/">> \o kind \o <<"/">> \o shard \o <<"/">> \o id,
              out |-> invert_ref_id(<<"refs", "/">> \o kind \o <<"/">> \o shard
                                      \o <<"/">> \o id)]
  /\ UNCHANGED <<remote, clone, projects, hist, pre, out, procs>>

\* invert_ref_id of the ref the last call returned
RefsInvertAgain ==
  /\ cx.did \in {"make", "invert"}
  /\ cx.out \notin {IndexError, ValueError}
  /\ cx' = [cx EXCEPT !.did = "invert", !.ref = cx.out, !.out = invert_ref_id(cx.out)]
  /\ UNCHANGED <<remote, clone, projects, hist, pre, out, procs>>

RefsNext ==
  \/ RefsMake
  \/ RefsMakeId
  \/ RefsInvert
  \/ RefsInvertAgain

SpecRefs == RefsInit /\ [][RefsNext]_vars


(***************************************************************************)
(* The migrations, run one after the other on All-Users and on a           *)
(* repository with refs/meta/config (All-Projects), each on the clone that *)
(* mk_clone keeps in the cache.  `projects` is [remote, clone, cached,     *)
(* head]: the repository, its clone, whether the cache holds that clone    *)
(* yet, and the ref the repository's HEAD names.                           *)
(***************************************************************************)
MaxMigrations == 3

heads_master == <<"refs", "/", "heads", "/", "master">>

\* git clone: the commit the remote HEAD names is checked out, detached when
\* HEAD names no branch of refs/heads; nothing when HEAD names no ref
git_clone(r, head) ==
  IF head \in DOMAIN r
  THEN [head |-> <<"HEAD">>, br |-> [b \in {<<"HEAD">>} |-> r[head]],
        idx |-> r[head].tree, wt |-> r[head].tree, fh |-> None]
  ELSE FreshClone

\* mk_clone: clones when the cache has no clone, else takes the cached one
mk_clone(p, env) ==
  IF ~p.cached
  THEN [World(p.remote, git_clone(p.remote, p.head), env, "p")
          EXCEPT !.loaded = {p.head} \cap DOMAIN p.remote]
  ELSE World(p.remote, p.clone, env, "p")

group_line(uuid, name) == <<uuid, "\t">> \o name \o <<"\n">>

\* `groups` of refs/meta/config: absent, or naming the old group, or both
su_groups(g) ==
  <<"# UUID", "\t", "Group Name", "\n">>
    \o (IF g \in {"niu", "both"} THEN group_line("global:Non-Interactive-Users", niu)
        ELSE <<>>)
    \o (IF g = "both" THEN group_line("global:Service-Users", su) ELSE <<>>)

su_acl(a) ==
  <<"[project]", "\n">>
    \o (IF a THEN <<"[access ", "\"", "refs/*", "\"", "]", "\n",
                    "\t", "read", " ", "=", " ", "group ">> \o niu \o <<"\n">>
        ELSE <<>>)

su_projects_tree(g, a) ==
  [p \in {project_config} \cup (IF g = "absent" THEN {} ELSE {groups_file}) |->
     IF p = project_config THEN su_acl(a) ELSE su_groups(g)]

MigrateInit ==
  /\ \E store \in {"absent", "flat", "nested"} :
       remote = InitRemote("fwd", TRUE, store, 1)
  /\ clone = FreshClone
  /\ \E g \in {"absent", "none", "niu", "both"}, a \in BOOLEAN,
        head \in {meta_config, heads_master} :
       projects = [remote |-> [r \in {meta_config} |->
                                 RootCommit(su_projects_tree(g, a), <<"Create project">>)],
                   clone  |-> FreshClone,
                   cached |-> FALSE,
                   head   |-> head]
  /\ hist = <<>>
  /\ pre = [remote |-> remote, clone |-> clone, projects |-> projects]
  /\ out = <<>>
  /\ procs = Idle
  /\ cx = Idle

\* the repository and its cached clone after a run that ended in wp
Cached(wp) == [projects EXCEPT !.remote = wp.remote, !.clone = wp.clone, !.cached = TRUE]

\* the run left the repository as p and ended in wu in All-Users
MigrationDone(name, p, wu) ==
  /\ Len(hist) < MaxMigrations
  /\ Hit(wu, wu.env)
  /\ remote' = wu.remote
  /\ clone' = wu.clone
  /\ projects' = p
  /\ hist' = Append(hist, Entry(name, <<>>, wu))
  /\ pre' = [remote |-> remote, clone |-> clone, projects |-> projects]
  /\ UNCHANGED <<out, procs, cx>>

RunMigrate ==
  \E env \in Envs(2) :
    MigrationDone("migrate", Cached(migrate_projects(mk_clone(projects, env))),
                  migrate_users(Carry(migrate_projects(mk_clone(projects, env)),
                                      remote, clone)))

RunMigrateSuGroup ==
  \E env \in Envs(1) :
    MigrationDone("migrate_su_group", Cached(migrate_su_group(mk_clone(projects, env))),
                  Carry(migrate_su_group(mk_clone(projects, env)), remote, clone))

RunMigrateToKeycloak ==
  \E env \in Envs(1) :
    MigrationDone("migrate_to_keycloak", projects, migrate_to_keycloak(Start(env)))

MigrateNext ==
  \/ RunMigrate
  \/ RunMigrateSuGroup
  \/ RunMigrateToKeycloak

SpecMigrate == MigrateInit /\ [][MigrateNext]_vars


(***************************************************************************)
(* create_admin_user on every shape of the Administrators group: named in  *)
(* refs/meta/group-names or not, its ref in the canonical shard form, the  *)
(* inverted one, both or neither.                                          *)
(***************************************************************************)
admin_remote(named, forms, has_members, store) ==
  [r \in {meta_group_names} |->
     RootCommit([p \in DOMAIN group_names_tree \ (IF named THEN {} ELSE {<< <<"1245">> >>}) |->
                   group_names_tree[p]],
                <<"Create group names">>)]
    @@ [r \in UNION {DOMAIN group_refs(form, has_members) : form \in forms} |->
          RootCommit(group_tree(has_members), <<"Create group">>)]
    @@ external_ids_refs(store)

AdminInit ==
  /\ \E named \in BOOLEAN, forms \in SUBSET {"fwd", "inv"}, has_members \in BOOLEAN,
        store \in {"absent", "flat"} :
       remote = admin_remote(named, forms, has_members, store)
  /\ clone = FreshClone
  /\ projects = InitProjects
  /\ hist = <<>>
  /\ pre = [remote |-> remote, clone |-> clone]
  /\ out = <<>>
  /\ procs = Idle
  /\ cx = Idle

AdminNext == CreateAdminUser

SpecAdmin == AdminInit /\ [][AdminNext]_vars


(***************************************************************************)
(* The existence probes under a fetch that fails although the remote has   *)
(* the ref: create_admin_user probes refs/users/01/1, delete_user reads    *)
(* refs/meta/external-ids through list_external_ids.                       *)
(***************************************************************************)
FetchFault(ref) == [NoFault EXCEPT !.nofetch = {ref}]

ProbeCreateAdminUser ==
  /\ Len(hist) < MaxOps
  /\ \E email \in {<<"admin@localhost">>}, pubkey \in {<<"ssh-rsa key">>},
        scheme \in {scheme_gerrit, scheme_keycloak} :
       Finish("create_admin_user",
              [email |-> email, pubkey |-> pubkey, scheme |-> scheme],
              create_admin_user(Start(FetchFault(mk_user_ref(admin_id))),
                                email, pubkey, scheme))
  /\ UNCHANGED <<projects, out, procs, cx>>

ProbeDeleteUser ==
  /\ Len(hist) < MaxOps
  /\ \E a \in {<< <<"Administrator">>, <<"admin@localhost">> >>,
               << <<"john">>, <<"john@localhost">> >>} :
       Finish("delete_user", [user |-> a[1], email |-> a[2]],
              delete_user(Start(FetchFault(meta_external_ids)), a[1], a[2]))
  /\ UNCHANGED <<projects, out, procs, cx>>

ProbeNext ==
  \/ CreateAdminUser
  \/ AddAccountExternalId
  \/ ProbeCreateAdminUser
  \/ ProbeDeleteUser

SpecProbe == Init /\ [][ProbeNext]_vars


(***************************************************************************)
(* new_orphan on the cached clone, in the states the operations leave it   *)
(* in: nothing checked out, or one of the operations' branches current.    *)
(***************************************************************************)
Branches == {<<"external_ids">>, <<"user_admin">>, <<"group_admin">>, <<"ids">>}

NewOrphan ==
  /\ Len(hist) < MaxOps
  /\ \E branch \in Branches :
       Finish("new_orphan", [branch |-> branch], new_orphan(Start(NoFault), branch))
  /\ UNCHANGED <<projects, out, procs, cx>>

OrphanNext ==
  \/ CreateAdminUser
  \/ AddAccountExternalId
  \/ NewOrphan

SpecOrphan == Init /\ [][OrphanNext]_vars


(***************************************************************************)
(* fetch_checkout on the cached clones, in the states the operations leave *)
(* them in: All-Users after create_admin_user or add_account_external_id,  *)
(* All-Projects after migrate.                                             *)
(***************************************************************************)
absent_ref == <<"refs", "/", "meta", "/", "absent">>

FetchCheckout ==
  /\ Len(hist) < MaxOps
  /\ \E branch \in {<<"external_ids">>, <<"user_admin">>, <<"ids">>},
        ref \in {meta_external_ids, mk_user_ref(admin_id), meta_group_names, absent_ref} :
       Finish("fetch_checkout", [repo |-> "users", branch |-> branch, ref |-> ref],
              fetch_checkout(Start(NoFault), branch, ref))
  /\ UNCHANGED <<projects, out, procs, cx>>

FetchCheckoutProjects ==
  /\ Len(hist) < MaxOps
  /\ \E branch \in {<<"config">>, <<"master">>}, ref \in {meta_config, absent_ref} :
       /\ hist' = Append(hist, Entry("fetch_checkout",
                                      [repo |-> "projects", branch |-> branch, ref |-> ref],
                                      fetch_checkout(StartProjects(NoFault), branch, ref)))
       /\ projects' = [remote |-> fetch_checkout(StartProjects(NoFault), branch, ref).remote,
                       clone  |-> fetch_checkout(StartProjects(NoFault), branch, ref).clone]
  /\ pre' = [remote |-> projects.remote, clone |-> projects.clone]
  /\ UNCHANGED <<remote, clone, out, procs, cx>>

FetchNext ==
  \/ CreateAdminUser
  \/ AddAccountExternalId
  \/ Migrate
  \/ FetchCheckout
  \/ FetchCheckoutProjects

SpecFetch == Init /\ [][FetchNext]_vars


(***************************************************************************)
(* Properties.  What they say of the repositories is read from the refs    *)
(* and files themselves, not through the operations above.                 *)
(***************************************************************************)
LastOp == hist[Len(hist)]

\* the last operation run is `name`
Ran(name) == hist # <<>> /\ LastOp.op = name

admin_ref == <<"refs", "/", "users", "/", "0", "1", "/", "1">>

HasLine(tree, path, line) == IsFile(tree, path) /\ InList(line, Lines(tree[path]))

\* the value of the first "\t<key> = <value>" line of a text, None without one
FieldOf(text, key) ==
  LET hits == SelectSeq(Lines(text), LAMBDA l : StartsWith(l, <<"\t", key, " ", "=", " ">>))
  IN  IF hits = <<>> THEN None ELSE Some(SubSeq(hits[1], 6, Len(hits[1])))

\* the tree of a ref of the remote r, empty when the ref does not exist
TreeOf(r, ref) == IF ref \in DOMAIN r THEN r[ref].tree ELSE EmptyTree

\* the identity files of a tree that carry the header of scheme:name
RecordsOf(tree, scheme, name) ==
  {f \in DOMAIN tree :
     InList(<<"[externalId ", "\"">> \o scheme \o <<":">> \o name \o <<"\"", "]">>,
            Lines(tree[f]))}

\* some identity record scheme:name of the tree belongs to account id
HasRecord(tree, scheme, name, id) ==
  \E f \in RecordsOf(tree, scheme, name) : FieldOf(tree[f], "accountId") = Some(id)

\* the user refs of r whose account.config carries fullName = user
UserRefs(r, user) ==
  {ref \in DOMAIN r :
     /\ StartsWith(ref, <<"refs", "/", "users", "/">>)
     /\ HasLine(r[ref].tree, account_config, <<"\t", "fullName", " ", "=", " ">> \o user)}

\* the refs of the Administrators group, in either shard form
AdminGroupRefs ==
  {<<"refs", "/", "groups", "/", "4", "5", "/">> \o admin_uuid,
   <<"refs", "/", "groups", "/", "1", "2", "/">> \o admin_uuid}

\* group-names of r names the group Administrators and its ref exists
AdminGroupExists(r) ==
  /\ \E f \in DOMAIN TreeOf(r, meta_group_names) :
       TreeOf(r, meta_group_names)[f] = group_file(<<"Administrators">>, admin_uuid)
  /\ AdminGroupRefs \cap DOMAIN r # {}

\* the case of C2: a run of create_admin_user that met no fault, on a remote
\* with the Administrators group and without the admin's ref
CreatedAdmin ==
  /\ Ran("create_admin_user")
  /\ LastOp.env = NoFault
  /\ AdminGroupExists(pre.remote)
  /\ admin_ref \notin DOMAIN pre.remote

\* the admin's user ref and group membership as C2 states them
AdminRefAndMembership ==
  /\ LastOp.exc = NoExc
  /\ \A i \in 1..Len(LastOp.pushlog) : LastOp.pushlog[i].res = "accepted"
  /\ admin_ref \in DOMAIN remote
  /\ HasLine(remote[admin_ref].tree, account_config,
             <<"\t", "fullName", " ", "=", " ", "Administrator">>)
  /\ HasLine(remote[admin_ref].tree, authorized_keys, LastOp.args.pubkey)
  /\ \A g \in AdminGroupRefs \cap DOMAIN pre.remote :
       HasLine(TreeOf(remote, g), members_file, <<"1">>)

(* C1: create_admin_user is idempotent: when refs/users/01/1 fetches, a    *)
(* call commits nothing, pushes nothing and leaves every remote ref as it  *)
(* was; so does a second call after a successful first one.                *)
C1_CreateAdminIdempotent ==
  (Ran("create_admin_user") /\ admin_ref \in DOMAIN pre.remote) =>
    /\ remote = pre.remote
    /\ LastOp.ncommit = 0
    /\ LastOp.pushlog = <<>>
    /\ LastOp.exc = NoExc

C1_Witness ==
  /\ Len(hist) = 2
  /\ hist[1].op = "create_admin_user" /\ hist[1].exc = NoExc /\ hist[1].env = NoFault
  /\ hist[2].op = "create_admin_user"
  /\ admin_ref \in DOMAIN pre.remote
  /\ remote = pre.remote

(* C2, as stated: from a remote with the Administrators group (ref in      *)
(* either shard form) and without refs/users/01/1, every push accepted,    *)
(* create_admin_user ends with the admin's ref holding account.config      *)
(* (fullName = Administrator) and authorized_keys (the key), the group's   *)
(* members file holding the line 1, and the identity records               *)
(* username:admin, <scheme>:admin and mailto:<email> all of accountId 1.   *)
C2_CreateAdminEndState ==
  CreatedAdmin =>
    /\ AdminRefAndMembership
    /\ HasRecord(TreeOf(remote, meta_external_ids), scheme_username, <<"admin">>, <<"1">>)
    /\ HasRecord(TreeOf(remote, meta_external_ids), LastOp.args.scheme, <<"admin">>, <<"1">>)
    /\ HasRecord(TreeOf(remote, meta_external_ids), scheme_mail, LastOp.args.email, <<"1">>)

(* C2, amended: the same end state, but the username:admin record is of    *)
(* accountId 1 only when the store held no username:admin record before; a *)
(* record that was there is left as it was, whatever its accountId.        *)
C2_CreateAdminEndStateAmended ==
  CreatedAdmin =>
    /\ AdminRefAndMembership
    /\ IF RecordsOf(TreeOf(pre.remote, meta_external_ids), scheme_username, <<"admin">>) = {}
       THEN HasRecord(TreeOf(remote, meta_external_ids), scheme_username, <<"admin">>, <<"1">>)
       ELSE \A f \in RecordsOf(TreeOf(pre.remote, meta_external_ids),
                               scheme_username, <<"admin">>) :
              /\ IsFile(TreeOf(remote, meta_external_ids), f)
              /\ TreeOf(remote, meta_external_ids)[f] = TreeOf(pre.remote, meta_external_ids)[f]
    /\ HasRecord(TreeOf(remote, meta_external_ids), LastOp.args.scheme, <<"admin">>, <<"1">>)
    /\ HasRecord(TreeOf(remote, meta_external_ids), scheme_mail, LastOp.args.email, <<"1">>)

C2_Witness ==
  /\ CreatedAdmin
  /\ admin_ref \in DOMAIN remote
  /\ HasRecord(TreeOf(remote, meta_external_ids), scheme_username, <<"admin">>, <<"1">>)
  /\ HasRecord(TreeOf(remote, meta_external_ids), scheme_mail, <<"admin@localhost">>, <<"1">>)

\* a run of delete_user that met no fault removed the first ref of the user
DeleteUserRemovesRef ==
  (/\ Ran("delete_user")
   /\ LastOp.env = NoFault
   /\ UserRefs(pre.remote, LastOp.args.user) # {}) =>
    /\ LastOp.exc = NoExc
    /\ DOMAIN pre.remote \ DOMAIN remote = {FirstRef(UserRefs(pre.remote, LastOp.args.user))}

\* delete_user was run twice with the same arguments, the first run with success
DeletedUserTwice ==
  /\ Len(hist) = 2
  /\ hist[1].op = "delete_user" /\ hist[2].op = "delete_user"
  /\ hist[1].args = hist[2].args
  /\ hist[1].env = NoFault /\ hist[2].env = NoFault
  /\ hist[1].exc = NoExc

(* C3, as stated: delete_user on a user whose ref exists removes that ref  *)
(* from the remote, and a second call with the same arguments fails with   *)
(* the user-not-found error.                                               *)
C3_DeleteUserTwice ==
  /\ DeleteUserRemovesRef
  /\ DeletedUserTwice => hist[2].exc = UserNotFound

(* C3, amended: delete_user removes the first ref, in ls-remote order,     *)
(* whose account.config carries the name; a second call with the same      *)
(* arguments fails with user-not-found when no other user ref carries that *)
(* name, and otherwise succeeds and removes the next such ref.             *)
C3_DeleteUserTwiceAmended ==
  /\ DeleteUserRemovesRef
  /\ DeletedUserTwice =>
       IF UserRefs(pre.remote, LastOp.args.user) = {}
       THEN hist[2].exc = UserNotFound
       ELSE hist[2].exc = NoExc

C3_Witness ==
  /\ DeletedUserTwice
  /\ hist[2].exc = UserNotFound
  /\ UserRefs(remote, LastOp.args.user) = {}

\* the refs of a group of the initial remote, in either shard form
GroupRefsOf(group) ==
  IF group = <<"Administrators">> THEN AdminGroupRefs
  ELSE {<<"refs", "/", "groups", "/", "2", "1", "/">> \o test_uuid,
        <<"refs", "/", "groups", "/", "5", "4", "/">> \o test_uuid}

\* the files of a group-names tree that name the group
GroupFilesOf(tree, group) ==
  {f \in DOMAIN tree : InList(<<"  ", "name", " ", "=", " ">> \o group, Lines(tree[f]))}

(* C4, as stated: for any group named in refs/meta/group-names the first   *)
(* delete_group succeeds, deletes the group's ref and removes the group's  *)
(* file from refs/meta/group-names; a second call fails with the           *)
(* group-not-found error; a call failing with it mutates no remote ref.    *)
C4_DeleteGroupTwice ==
  /\ (/\ Ran("delete_group")
      /\ LastOp.env = NoFault
      /\ GroupFilesOf(TreeOf(pre.remote, meta_group_names), LastOp.args.group) # {}) =>
       /\ LastOp.exc = NoExc
       /\ GroupRefsOf(LastOp.args.group) \cap DOMAIN remote = {}
       /\ GroupFilesOf(TreeOf(remote, meta_group_names), LastOp.args.group) = {}
  /\ (/\ Len(hist) = 2
      /\ hist[1].op = "delete_group" /\ hist[2].op = "delete_group"
      /\ hist[1].args = hist[2].args
      /\ hist[1].env = NoFault /\ hist[2].env = NoFault
      /\ hist[1].exc = NoExc) => hist[2].exc = GroupNotFound
  /\ (Ran("delete_group") /\ LastOp.exc = GroupNotFound) => remote = pre.remote

\* the account ids of the identity files of a tree
AccountIds(tree) ==
  {FieldOf(tree[f], "accountId")[1] : f \in {g \in DOMAIN tree : FieldOf(tree[g], "accountId") # None}}

\* the files of account id in a tree
FilesOf(tree, id) == {f \in DOMAIN tree : FieldOf(tree[f], "accountId") = Some(id)}

\* the names of the username:<name> records of account id, None without one
UsernamesOf(tree, id) ==
  LET named == {f \in FilesOf(tree, id) :
                  \E n \in Names : f \in RecordsOf(tree, scheme_username, n)}
  IN  IF named = {} THEN {None}
      ELSE {Some(n) : n \in {m \in Names : RecordsOf(tree, scheme_username, m) \cap named # {}}}

\* the emails of the records of account id that carry an email line
EmailsOf(tree, id) ==
  LET mailed == {f \in FilesOf(tree, id) : FieldOf(tree[f], "email") # None}
  IN  IF mailed = {} THEN {None} ELSE {FieldOf(tree[f], "email") : f \in mailed}

(* C5: list_users is read-only; it returns one record per distinct         *)
(* accountId of the identity files of refs/meta/external-ids, the username *)
(* from a username:<name> record of the account and the email from a       *)
(* record with an email line (null when there is none), and the empty list *)
(* when the ref cannot be fetched; after create_admin_user with            *)
(* admin@localhost on a store of no other identity it returns the one      *)
(* record (1, admin, admin@localhost).                                     *)
C5_ListUsers ==
  Ran("list_users") =>
    /\ remote = pre.remote
    /\ LastOp.ncommit = 0 /\ LastOp.pushlog = <<>> /\ LastOp.exc = NoExc
    /\ meta_external_ids \notin DOMAIN pre.remote => out = <<>>
    /\ {out[i].id : i \in 1..Len(out)} = AccountIds(TreeOf(remote, meta_external_ids))
    /\ \A i, j \in 1..Len(out) : out[i].id = out[j].id => i = j
    /\ \A i \in 1..Len(out) :
         /\ out[i].username \in UsernamesOf(TreeOf(remote, meta_external_ids), out[i].id)
         /\ out[i].email \in EmailsOf(TreeOf(remote, meta_external_ids), out[i].id)
    /\ (/\ Len(hist) = 2
        /\ hist[1].op = "create_admin_user" /\ hist[1].exc = NoExc /\ hist[1].env = NoFault
        /\ AccountIds(TreeOf(remote, meta_external_ids)) = {<<"1">>}) =>
         out = << [id |-> <<"1">>, username |-> Some(<<"admin">>),
                   email |-> Some(<<"admin@localhost">>)] >>

C5_Witness ==
  /\ Len(hist) = 2
  /\ hist[1].op = "create_admin_user" /\ hist[1].exc = NoExc /\ hist[1].env = NoFault
  /\ hist[2].op = "list_users"
  /\ out = << [id |-> <<"1">>, username |-> Some(<<"admin">>),
               email |-> Some(<<"admin@localhost">>)] >>

(* C6: commit_and_push never fails: whatever the commit did (committed,    *)
(* nothing to commit, error) and whatever the push did (accepted,          *)
(* rejected, error) it returns normally, the push was attempted even when  *)
(* the commit failed, and the caller sees the same whether the push was    *)
(* accepted or rejected.                                                   *)
C6_CommitAndPushNeverFails ==
  \A p \in Procs :
    procs.st[p].pc = "done" =>
      /\ procs.st[p].exc = NoExc
      /\ Len(procs.st[p].pushlog) = 1
      /\ procs.st[p].pushlog[1].ref = meta_external_ids
      /\ procs.st[p].pushlog[1].res \in {"accepted", "rejected", "error"}

C6_Witness ==
  \E p, q \in Procs :
    /\ procs.st[p].pc = "done" /\ procs.st[q].pc = "done"
    /\ procs.st[p].commit = "error" /\ procs.st[p].pushlog[1].res = "rejected"
    /\ procs.st[q].commit = "committed" /\ procs.st[q].pushlog[1].res = "accepted"
    /\ procs.st[p].exc = NoExc /\ procs.st[q].exc = NoExc

\* both processes fetched the ref at the same tip, wrote, committed and
\* pushed, and the server rejected nothing of its own
Raced ==
  /\ \A p \in Procs :
       /\ procs.st[p].pc = "done"
       /\ procs.st[p].commit = "committed"
       /\ procs.st[p].env.rej = {}
       /\ procs.st[p].base # None
  /\ \A p, q \in Procs : procs.st[p].base = procs.st[q].base

\* the commit process p made
CommitOf(p) == procs.st[p].clone.br[procs.st[p].clone.head]

(* C7, as stated: when two processes fetch the same ref at the same tip,   *)
(* each mutate and each run commit_and_push to it, the last write wins:    *)
(* after both pushes the ref holds the commit of the process that pushed   *)
(* last.                                                                   *)
C7_LastWriteWins ==
  Raced => remote[meta_external_ids] = CommitOf(procs.order[2])

(* C7, amended: the first write wins: the push is no forced push, so the   *)
(* second one is no fast-forward; it is rejected, commit_and_push swallows *)
(* the failure, and the ref keeps the commit of the process that pushed    *)
(* first.                                                                  *)
C7_FirstWriteWins ==
  Raced =>
    /\ remote[meta_external_ids] = CommitOf(procs.order[1])
    /\ remote[meta_external_ids] # CommitOf(procs.order[2])
    /\ procs.st[procs.order[1]].pushlog[1].res = "accepted"
    /\ procs.st[procs.order[2]].pushlog[1].res = "rejected"
    /\ procs.st[procs.order[2]].exc = NoExc

C7_Witness ==
  /\ Raced
  /\ procs.order = <<"p", "q">>
  /\ remote[meta_external_ids] = CommitOf("p")

\* the one depth at which the tree holds the file of a digest, None when it
\* holds it at no depth or at several
DepthOf(tree, sha) ==
  LET at == {d \in 0..MaxNest :
               IsFile(tree, [i \in 1..(d + 1) |->
                               IF i <= d THEN SubSeq(sha, 2 * i - 1, 2 * i)
                               ELSE SubSeq(sha, 2 * d + 1, Len(sha))])}
  IN  IF Cardinality(at) = 1 THEN Some(CHOOSE d \in at : TRUE) ELSE None

\* the path of a digest at depth d
PathAt(sha, d) ==
  [i \in 1..(d + 1) |->
     IF i <= d THEN SubSeq(sha, 2 * i - 1, 2 * i) ELSE SubSeq(sha, 2 * d + 1, Len(sha))]

\* the last operation was a run of add_account_external_id that found the
\* identity ref
AddedExternalId ==
  /\ Ran("add_account_external_id")
  /\ meta_external_ids \in DOMAIN pre.remote

\* the record of scheme:name of account id sits at depth d of the tree
RecordAt(tree, scheme, name, id, d) ==
  /\ IsFile(tree, PathAt(sha1sum(scheme \o <<":">> \o name), d))
  /\ PathAt(sha1sum(scheme \o <<":">> \o name), d) \in RecordsOf(tree, scheme, name)
  /\ FieldOf(tree[PathAt(sha1sum(scheme \o <<":">> \o name), d)], "accountId") = Some(id)

(* C8: write_gerrit_username_id_files writes the <scheme>:<name> record at *)
(* the depth of the store's username:<name> record: without one at any     *)
(* depth both records are written at depth 1; with one at depth d it is    *)
(* left untouched and the scheme record is written at depth d.             *)
C8_SchemeRecordDepth ==
  AddedExternalId =>
    LET before == pre.remote[meta_external_ids].tree
        usha   == sha1sum(scheme_username \o <<":">> \o LastOp.args.username)
    IN  /\ (\A d \in 0..MaxNest : ~IsFile(before, PathAt(usha, d))) =>
             /\ RecordAt(clone.wt, scheme_username, LastOp.args.username,
                         LastOp.args.account_id, 1)
             /\ RecordAt(clone.wt, LastOp.args.scheme, LastOp.args.username,
                         LastOp.args.account_id, 1)
             /\ DepthOf(clone.wt, usha) = Some(1)
        /\ \A d \in 0..MaxNest :
             DepthOf(before, usha) = Some(d) =>
               /\ clone.wt[PathAt(usha, d)] = before[PathAt(usha, d)]
               /\ DepthOf(clone.wt, usha) = Some(d)
               /\ RecordAt(clone.wt, LastOp.args.scheme, LastOp.args.username,
                           LastOp.args.account_id, d)

C8_Witness ==
  /\ AddedExternalId
  /\ DepthOf(pre.remote[meta_external_ids].tree,
             sha1sum(scheme_username \o <<":">> \o LastOp.args.username)) = Some(2)
  /\ RecordAt(clone.wt, LastOp.args.scheme, LastOp.args.username, LastOp.args.account_id, 2)

\* only the operations C9 names were run
OnlyIdentityWriters ==
  \A i \in 1..Len(hist) :
    hist[i].op \in {"add_account_external_id", "create_admin_user", "migrate",
                    "migrate_to_keycloak"}

(* C9, as stated: in every state of the identity store reached by          *)
(* add_account_external_id, create_admin_user, migrate and                 *)
(* migrate_to_keycloak from a store with one identity file per             *)
(* (scheme, name) pair, there is one identity file per pair: never two     *)
(* files of the same scheme:name key at different depths or paths.         *)
C9_OneFilePerKey ==
  OnlyIdentityWriters =>
    \A scheme \in {scheme_username, scheme_gerrit, scheme_keycloak, scheme_mail},
       name \in Names \cup Emails :
      Cardinality(RecordsOf(TreeOf(remote, meta_external_ids), scheme, name)) <= 1

(* C10: the round trip of the path codec: when the store holds the file of *)
(* a key at nest_sha(root, key, nest), nest in 0..3, and at no other       *)
(* depth, lookup_sha_nest(root, key, 0) is nest; and nest_sha(root, key,   *)
(* 1) is root / key[:2] / key[2:].                                         *)
C10_CodecRoundTrip ==
  /\ \A sha \in CodecKeys, nest \in 0..MaxNest :
       (/\ IsFile(cx.tree, nest_sha(<<>>, sha, nest))
        /\ \A m \in 0..MaxNest \ {nest} : ~IsFile(cx.tree, nest_sha(<<>>, sha, m))) =>
         /\ lookup_sha_nest(cx.tree, <<>>, sha, 0) = Some(nest)
         /\ nest_sha(<<>>, sha, nest) = PathAt(sha, nest)
         /\ (cx.did = "lookup" /\ cx.sha = sha) => cx.found = Some(nest)
  /\ \A sha \in CodecKeys :
       nest_sha(<<>>, sha, 1) = <<SubSeq(sha, 1, 2), SubSeq(sha, 3, Len(sha))>>

C10_Witness ==
  /\ cx.did = "lookup"
  /\ cx.found = Some(MaxNest)
  /\ IsFile(cx.tree, PathAt(cx.sha, MaxNest))
  /\ Cardinality(DOMAIN cx.tree) = MaxFiles


\* the id is spelled without a "/"
NoSlash(id) == \A i \in 1..Len(id) : id[i] # "/"

\* the segments of a ref: the runs of tokens between its "/" tokens
RECURSIVE Segments(_)
Segments(ref) ==
  IF \A i \in 1..Len(ref) : ref[i] # "/" THEN <<ref>>
  ELSE LET k == CHOOSE i \in 1..Len(ref) :
                  ref[i] = "/" /\ \A j \in 1..(i - 1) : ref[j] # "/"
       IN  <<SubSeq(ref, 1, k - 1)>> \o Segments(SubSeq(ref, k + 1, Len(ref)))

\* the shard C11 states for an id of one character or more
ShardOf(id) == IF Len(id) >= 2 THEN SubSeq(id, Len(id) - 1, Len(id)) ELSE <<"0">> \o id

(* C11: mk_ref_id(id) is <shard>/<id>, the shard being the last two        *)
(* characters of id when len(id) >= 2 and "0" + id when len(id) = 1;       *)
(* mk_ref(kind)(id) is refs/<kind>/<shard>/<id>; splitting that ref on "/" *)
(* gives back kind, shard and id when the id has no "/".                   *)
C11_MkRef ==
  /\ (cx.did = "make_id" /\ Len(cx.id) >= 1) =>
       cx.out = ShardOf(cx.id) \o <<"/">> \o cx.id
  /\ (cx.did = "make" /\ cx.ref = <<>> /\ Len(cx.id) >= 1) =>
       /\ cx.out = <<"refs", "/">> \o cx.kind \o <<"/">> \o ShardOf(cx.id) \o <<"/">> \o cx.id
       /\ NoSlash(cx.id) => Segments(cx.out) = << <<"refs">>, cx.kind, ShardOf(cx.id), cx.id >>

C11_Witness ==
  /\ cx.did = "make"
  /\ cx.kind = <<"groups">>
  /\ cx.id = <<"1", "2", "a">>
  /\ cx.out = <<"refs", "/", "groups", "/", "2", "a", "/", "1", "2", "a">>

\* the ref of the exercise has four segments: its kind, shard and id are
\* spelled without "/"
FourSegments == cx.did = "invert" /\ Len(Segments(cx.ref)) = 4

(* C12: invert_ref_id of a four-segment ref refs/<kind>/<shard>/<id> is    *)
(* refs/<kind>/<id[:2]>/<id>, whatever the shard; inverting twice is       *)
(* inverting once; the ref comes back unchanged exactly when its shard is  *)
(* id[:2].                                                                 *)
C12_InvertRef ==
  FourSegments =>
    LET seg == Segments(cx.ref)
        id2 == SubSeq(seg[4], 1, IF Len(seg[4]) < 2 THEN Len(seg[4]) ELSE 2)
    IN  /\ cx.out = seg[1] \o <<"/">> \o seg[2] \o <<"/">> \o id2 \o <<"/">> \o seg[4]
        /\ invert_ref_id(cx.out) = cx.out
        /\ (cx.out = cx.ref) <=> (seg[3] = id2)

C12_Witness ==
  /\ cx.did = "invert"
  /\ cx.ref = <<"refs", "/", "groups", "/", "2", "a", "/", "1", "2", "a">>
  /\ cx.out = <<"refs", "/", "groups", "/", "1", "2", "/", "1", "2", "a">>

(* C16: mk_ref_id fails with an error on the empty id, and so do           *)
(* mk_user_ref and mk_group_ref: no ref string is produced for it.         *)
C16_EmptyIdFails ==
  (cx.did \in {"make", "make_id"} /\ cx.ref = <<>>) =>
    IF cx.id = <<>>
    THEN cx.out = IndexError /\ Segments(cx.out) = <<IndexError>>
    ELSE cx.out # IndexError /\ cx.out[Len(cx.out)] = cx.id[Len(cx.id)]

C16_Witness ==
  /\ cx.did = "make"
  /\ cx.kind = <<"users">>
  /\ cx.id = <<>>
  /\ cx.out = IndexError

\* the depths at which the store of the codec exercise holds the file of sha
DepthsOf(sha) == {d \in 0..MaxNest : IsFile(cx.tree, PathAt(sha, d))}

(* C13: lookup_sha_nest(root, key, 0) is the smallest depth at which the   *)
(* path of the key exists; it is the not-found sentinel, which is not      *)
(* depth 0, when the path exists at no depth; it is never 0 for a key      *)
(* without a file directly under root.                                     *)
C13_LookupSmallestDepth ==
  /\ None # Some(0)
  /\ cx.did = "lookup" =>
       /\ IF DepthsOf(cx.sha) = {} THEN cx.found = None
          ELSE \E d \in DepthsOf(cx.sha) :
                 /\ cx.found = Some(d)
                 /\ \A e \in DepthsOf(cx.sha) : d <= e
       /\ cx.found = Some(0) => <<cx.sha>> \in DOMAIN cx.tree

C13_Witness ==
  /\ cx.did = "lookup"
  /\ cx.found = None
  /\ Cardinality(DOMAIN cx.tree) = MaxFiles
  /\ \E f \in DOMAIN cx.tree : f[1] = SubSeq(cx.sha, 1, 2)

\* the refs to which the last run pushed with success
PushedRefs(e) == {e.pushlog[k].ref : k \in {i \in 1..Len(e.pushlog) : e.pushlog[i].res = "accepted"}}

\* the last run repeats the migration run before it, which met no fault
RanTwice == Len(hist) >= 2 /\ hist[Len(hist) - 1].op = LastOp.op
            /\ hist[Len(hist) - 1].env = NoFault

\* a repeated migration changes no ref of either repository
MigrationsIdempotent ==
  RanTwice => remote = pre.remote /\ projects.remote = pre.projects.remote

\* every migration run loads the refs to which it pushes
MigrationsLoadRef == hist # <<>> => PushedRefs(LastOp) \subseteq LastOp.loaded

\* every migration run commits and pushes at most once
MigrationsPushOnce == hist # <<>> => LastOp.ncommit <= 1 /\ Len(LastOp.pushlog) <= 1

AdminGroupNamed(r) ==
  \E f \in DOMAIN TreeOf(r, meta_group_names) :
    TreeOf(r, meta_group_names)[f] = group_file(<<"Administrators">>, admin_uuid)

canonical_ref == <<"refs", "/", "groups", "/", "4", "5", "/">> \o admin_uuid
inverted_ref == <<"refs", "/", "groups", "/", "1", "2", "/">> \o admin_uuid

\* a run of create_admin_user on a remote without the admin's ref
CreatesAdmin == Ran("create_admin_user") /\ admin_ref \notin DOMAIN pre.remote

\* the run has fetched the group in the form `ref` and pushed the membership there
MembershipTo(ref) ==
  /\ ref \in LastOp.loaded
  /\ LastOp.pushlog # <<>>
  /\ LastOp.pushlog[1].ref = ref
  /\ LastOp.pushlog[1].res = "accepted" =>
       /\ HasLine(TreeOf(remote, ref), members_file, <<"1">>)
       /\ remote[ref].msg = <<"Add admin user to Administrators group">>

(* C15: create_admin_user fetches the Administrators group by its          *)
(* canonical ref first and by the inverted ref only when that fails, and   *)
(* pushes the membership commit to the form it fetched; when the group is  *)
(* not named in refs/meta/group-names or neither form fetches, the run     *)
(* fails with an error and has changed no remote ref.                      *)
C15_GroupRefFallback ==
  CreatesAdmin =>
    /\ (AdminGroupNamed(pre.remote) /\ canonical_ref \in DOMAIN pre.remote) =>
         MembershipTo(canonical_ref) /\ inverted_ref \notin LastOp.loaded
    /\ (AdminGroupNamed(pre.remote) /\ canonical_ref \notin DOMAIN pre.remote
          /\ inverted_ref \in DOMAIN pre.remote) =>
         MembershipTo(inverted_ref)
    /\ (~AdminGroupNamed(pre.remote) \/ AdminGroupRefs \cap DOMAIN pre.remote = {}) =>
         /\ LastOp.exc # NoExc
         /\ LastOp.pushlog = <<>>
         /\ remote = pre.remote

C15_Witness ==
  /\ CreatesAdmin
  /\ AdminGroupNamed(pre.remote)
  /\ canonical_ref \notin DOMAIN pre.remote
  /\ inverted_ref \in LastOp.loaded
  /\ LastOp.pushlog[1] = [ref |-> inverted_ref, res |-> "accepted"]
  /\ remote[inverted_ref] # pre.remote[inverted_ref]

(* C17: a run of create_admin_user pushes in a fixed order: the membership *)
(* commit to the group ref, then the identity commit to                    *)
(* refs/meta/external-ids, then the admin's ref; so refs/users/01/1 is     *)
(* created by a run only after it has attempted both other pushes, while   *)
(* an interrupted run may leave the membership without the identity.       *)
C17_PushOrder ==
  CreatesAdmin =>
    /\ Len(LastOp.pushlog) <= 3
    /\ \A k \in 1..Len(LastOp.pushlog) :
         /\ k = 1 => LastOp.pushlog[k].ref \in AdminGroupRefs
         /\ k = 2 => LastOp.pushlog[k].ref = meta_external_ids
         /\ k = 3 => LastOp.pushlog[k].ref = admin_ref
    /\ admin_ref \in DOMAIN remote => Len(LastOp.pushlog) = 3
    /\ TreeOf(remote, meta_external_ids) # TreeOf(pre.remote, meta_external_ids) =>
         Len(LastOp.pushlog) >= 2

\* a run killed after its first push: the membership is in, the identity is not
C17_Witness ==
  /\ CreatesAdmin
  /\ LastOp.exc = Killed
  /\ Len(LastOp.pushlog) = 1
  /\ LastOp.pushlog[1].res = "accepted"
  /\ \E g \in AdminGroupRefs : HasLine(TreeOf(remote, g), members_file, <<"1">>)
  /\ RecordsOf(TreeOf(remote, meta_external_ids), LastOp.args.scheme, <<"admin">>) = {}
  /\ admin_ref \notin DOMAIN remote

\* the k-th push of the last run put HEAD on its ref
Accepted(k) == LastOp.pushlog[k].res = "accepted"

\* the last run had loaded the ref of its k-th push, or had started an orphan
\* branch for a ref that did not exist
LoadedBeforePush(k) ==
  \/ LastOp.pushlog[k].ref \in LastOp.loaded
  \/ LastOp.pushlog[k].ref \notin DOMAIN pre.remote /\ LastOp.orphan

\* no ref holds, after the last run, a commit that comes from another ref
NoUnrelatedContent ==
  \A R \in DOMAIN remote :
    \/ R \in DOMAIN pre.remote /\ IsAncestor(pre.remote[R], remote[R])
    \/ R \notin DOMAIN pre.remote
         /\ \A other \in DOMAIN pre.remote : ~IsAncestor(pre.remote[other], remote[R])

(* C18: every operation follows Idle -> Fetched -> CheckedOut -> Mutated   *)
(* -> Committed -> Pushed: a run that pushes HEAD to a ref R has before,   *)
(* in the same run, fetched and checked out R, or started an orphan branch *)
(* because R did not exist; so R ends at its former tip or a descendant    *)
(* of it and never holds the content of another branch.                    *)
C18_TransactionProtocol ==
  hist # <<>> =>
    /\ \A k \in 1..Len(LastOp.pushlog) : Accepted(k) => LoadedBeforePush(k)
    /\ NoUnrelatedContent

\* the last run was the migration `op`, met no fault and found the identity ref
Migrated(op) ==
  /\ Ran(op)
  /\ LastOp.env = NoFault
  /\ LastOp.exc = NoExc
  /\ meta_external_ids \in DOMAIN pre.remote

\* every <old>:<name> record at depth d before has its <new>:<name> record of
\* the same account at depth d after, where lookup_sha_nest finds it
Rehashed(before, after, old, new, depths) ==
  \A name \in Names, d \in depths :
    \A id \in AccountIds(before) :
      RecordAt(before, old, name, id, d) =>
        /\ RecordAt(after, new, name, id, d)
        /\ lookup_sha_nest(after, <<>>, sha1sum(new \o <<":">> \o name), 0) = Some(d)

(* C19: a scheme migration re-hashes the file name: after migrate          *)
(* (username -> gerrit) and after migrate_to_keycloak (gerrit ->           *)
(* keycloak-oauth), every <old>:<name> record stored at depth d has a      *)
(* <new>:<name> record of the same accountId at the path of the digest of  *)
(* <new>:<name> at depth d, where lookup_sha_nest finds it at depth d, for *)
(* d = 0 and for d >= 1.                                                   *)
C19_MigrationRehash ==
  /\ Migrated("migrate") =>
       Rehashed(pre.remote[meta_external_ids].tree, TreeOf(remote, meta_external_ids),
                scheme_username, scheme_gerrit, 0..MaxNest)
  /\ Migrated("migrate_to_keycloak") =>
       Rehashed(pre.remote[meta_external_ids].tree, TreeOf(remote, meta_external_ids),
                scheme_gerrit, scheme_keycloak, 0..MaxNest)

\* the last run was a delete_user that met no fault, found the identity ref
\* and ended without error
DeletedUser ==
  /\ Ran("delete_user")
  /\ LastOp.env = NoFault
  /\ LastOp.exc = NoExc
  /\ meta_external_ids \in DOMAIN pre.remote

\* the identity files of a tree with a line equal to a candidate header
CandidateFiles(tree, user, email) ==
  RecordsOf(tree, scheme_mail, email) \cup RecordsOf(tree, scheme_gerrit, user)
    \cup RecordsOf(tree, scheme_username, user)

\* delete_user has removed the files get_user_external_id selects, and only them
RemovedCandidates ==
  DeletedUser =>
    /\ DOMAIN TreeOf(remote, meta_external_ids) =
         DOMAIN pre.remote[meta_external_ids].tree
           \ CandidateFiles(pre.remote[meta_external_ids].tree,
                            LastOp.args.user, LastOp.args.email)
    /\ \A f \in DOMAIN TreeOf(remote, meta_external_ids) :
         remote[meta_external_ids].tree[f] = pre.remote[meta_external_ids].tree[f]

\* the admin's account, all of whose records create_admin_user wrote, was deleted
DeletedToolAccount ==
  /\ DeletedUser
  /\ Len(hist) = 2
  /\ hist[1].op = "create_admin_user"
  /\ hist[1].env = NoFault
  /\ hist[1].exc = NoExc
  /\ admin_ref \in DOMAIN pre.remote \ DOMAIN remote

(* C20: get_user_external_id(user, email) selects the identity files with  *)
(* a line equal to the header of mailto:email, gerrit:user or              *)
(* username:user, and these are all the records of the account: when the   *)
(* records of an account were all written by create_admin_user or          *)
(* add_account_external_id, no identity file with its accountId remains in *)
(* refs/meta/external-ids after a delete_user that succeeded.              *)
C20_DeleteUserRecords ==
  /\ RemovedCandidates
  /\ DeletedToolAccount => FilesOf(TreeOf(remote, meta_external_ids), admin_id) = {}

\* the refs other than refs/meta/external-ids are as they were before the last run
OtherRefsUnchanged ==
  /\ DOMAIN remote \ {meta_external_ids} = DOMAIN pre.remote \ {meta_external_ids}
  /\ \A r \in DOMAIN remote \ {meta_external_ids} : remote[r] = pre.remote[r]

(* C21: delete_user attempts the removal of the identity files and its     *)
(* commit and push first and unconditionally, also when no file matches:   *)
(* a run fails only after that, at the look-up or the deletion of the user *)
(* ref; when it fails with user-not-found, the removals it has pushed to   *)
(* refs/meta/external-ids stay in place and nothing else has changed.      *)
C21_DeleteUserRemovesFirst ==
  Ran("delete_user") =>
    /\ LastOp.pushlog # <<>>
    /\ LastOp.pushlog[1].ref = meta_external_ids
    /\ (LastOp.exc = UserNotFound /\ LastOp.env.rej = {}
          /\ meta_external_ids \in DOMAIN pre.remote) =>
         /\ Len(LastOp.pushlog) = 1
         /\ LastOp.pushlog[1].res = "accepted"
         /\ DOMAIN remote[meta_external_ids].tree =
              DOMAIN pre.remote[meta_external_ids].tree
                \ CandidateFiles(pre.remote[meta_external_ids].tree,
                                 LastOp.args.user, LastOp.args.email)
         /\ OtherRefsUnchanged

C21_Witness ==
  /\ Ran("delete_user")
  /\ LastOp.exc = UserNotFound
  /\ meta_external_ids \in DOMAIN pre.remote
  /\ CandidateFiles(pre.remote[meta_external_ids].tree,
                    LastOp.args.user, LastOp.args.email) # {}
  /\ CandidateFiles(remote[meta_external_ids].tree,
                    LastOp.args.user, LastOp.args.email) = {}
  /\ LastOp.ncommit = 1

\* the ref of the Administrators group that create_admin_user resolves in r
ResolvedGroupRef(r) ==
  IF canonical_ref \in DOMAIN r THEN canonical_ref ELSE inverted_ref

\* the lines of the members file of a group ref of r
MemberLines(r, ref) ==
  IF IsFile(TreeOf(r, ref), members_file) THEN Lines(TreeOf(r, ref)[members_file])
  ELSE <<>>

\* how many lines of a list are the line l
CountLine(lines, l) == Cardinality({i \in 1..Len(lines) : lines[i] = l})

\* the group holds the admin once and has lost no member since the last run began
MemberOnce ==
  /\ CountLine(MemberLines(remote, ResolvedGroupRef(pre.remote)), admin_id) = 1
  /\ \A i \in 1..Len(MemberLines(pre.remote, ResolvedGroupRef(pre.remote))) :
       InList(MemberLines(pre.remote, ResolvedGroupRef(pre.remote))[i],
              MemberLines(remote, ResolvedGroupRef(pre.remote)))

\* create_admin_user was run on a remote that names the group and holds its ref
RanOnGroup ==
  /\ Ran("create_admin_user")
  /\ AdminGroupNamed(pre.remote)
  /\ AdminGroupRefs \cap DOMAIN pre.remote # {}

(* C22: after any number of create_admin_user runs, re-runs after an       *)
(* interrupted run or after a run with rejected pushes included, the       *)
(* members file of the Administrators group holds the line 1 exactly once  *)
(* and every member line that was there before.                            *)
C22_MemberOnce == RanOnGroup => MemberOnce

\* the same in the runs whose membership push was not rejected
MemberOnceUnlessRejected ==
  (RanOnGroup /\ \A k \in 1..Len(hist) : 1 \notin hist[k].env.rej) => MemberOnce

\* the admin is never listed twice
MemberAtMostOnce ==
  RanOnGroup => CountLine(MemberLines(remote, ResolvedGroupRef(pre.remote)), admin_id) <= 1

\* the last run met a fetch of ref that failed although the remote had the ref
ProbeFailed(ref) ==
  /\ hist # <<>>
  /\ ref \in LastOp.env.nofetch
  /\ ref \in DOMAIN pre.remote

ProbeRan ==
  \/ Ran("create_admin_user") /\ ProbeFailed(admin_ref)
  \/ Ran("delete_user") /\ ProbeFailed(meta_external_ids)

\* C23: a probe fetch that fails for another reason than the absence of the
\* ref makes the operation fail with an error: the run raises, and makes no
\* commit and no push
C23_ProbeFailurePropagates ==
  ProbeRan => /\ LastOp.exc # NoExc
              /\ LastOp.ncommit = 0
              /\ LastOp.pushlog = <<>>

\* the clone is on an unborn branch, with nothing staged and no file
OnOrphan(c, branch) ==
  /\ c.head = branch
  /\ branch \notin DOMAIN c.br
  /\ c.idx = EmptyTree
  /\ c.wt = EmptyTree

\* the last run pushed the admin's user ref
PushedAdminRef ==
  /\ Ran("create_admin_user")
  /\ \E k \in 1..Len(LastOp.pushlog) :
       LastOp.pushlog[k].ref = admin_ref /\ LastOp.pushlog[k].res = "accepted"
  /\ admin_ref \notin DOMAIN pre.remote

AdminCommitIsOrphan ==
  /\ remote[admin_ref].parent = None
  /\ DOMAIN remote[admin_ref].tree = {<< <<"account.config">> >>, << <<"authorized_keys">> >>}

\* C24: new_orphan succeeds from any state of the clone, whether or not the
\* branch exists and whether or not it is current, and leaves the clone on an
\* unborn branch with an empty index and an empty working tree; the commit
\* create_admin_user pushes to refs/users/01/1 has no parent and holds
\* exactly account.config and authorized_keys
C24_NewOrphan ==
  /\ Ran("new_orphan") =>
       LastOp.exc = NoExc /\ OnOrphan(clone, LastOp.args.branch)
  /\ PushedAdminRef => AdminCommitIsOrphan

\* new_orphan does so whenever the branch is not the current one and the
\* index holds a file, as in both of its calls in create_admin_user
NewOrphanOffBranch ==
  (Ran("new_orphan") /\ pre.clone.head # LastOp.args.branch /\ pre.clone.idx # EmptyTree) =>
    LastOp.exc = NoExc /\ OnOrphan(clone, LastOp.args.branch)

\* the clone the last fetch_checkout ran on
FetchedClone == IF LastOp.args.repo = "projects" THEN projects.clone ELSE clone

FetchOf(present) ==
  /\ Ran("fetch_checkout")
  /\ (LastOp.args.ref \in DOMAIN pre.remote) = present

FetchFailedUnchanged ==
  /\ LastOp.exc = GitFailed
  /\ FetchedClone.head = pre.clone.head
  /\ FetchedClone.br = pre.clone.br
  /\ FetchedClone.idx = pre.clone.idx
  /\ FetchedClone.wt = pre.clone.wt

BranchReset ==
  /\ LastOp.exc = NoExc
  /\ FetchedClone.head = LastOp.args.branch
  /\ LastOp.args.branch \in DOMAIN FetchedClone.br
  /\ FetchedClone.br[LastOp.args.branch] = pre.remote[LastOp.args.ref]

\* C25: fetch_checkout of a ref the remote does not have fails and leaves the
\* current branch and the working tree as they were; of a ref the remote has,
\* it resets the named local branch to the fetched tip and makes it current,
\* whatever the local branch pointed to
C25_FetchCheckout ==
  /\ FetchOf(FALSE) => FetchFailedUnchanged
  /\ FetchOf(TRUE) => BranchReset

\* the same, but for a working tree with an untracked file that the fetched
\* commit tracks: there the checkout fails and the clone stays as it was
Blocked ==
  (DOMAIN pre.clone.wt \ DOMAIN pre.clone.idx) \cap DOMAIN pre.remote[LastOp.args.ref].tree # {}

FetchCheckoutUnlessBlocked ==
  /\ FetchOf(FALSE) => FetchFailedUnchanged
  /\ FetchOf(TRUE) /\ ~Blocked => BranchReset
  /\ FetchOf(TRUE) /\ Blocked => FetchFailedUnchanged

\* the last run was a delete_user that ended without error
DeleteUserSucceeded == Ran("delete_user") /\ LastOp.exc = NoExc

(* C26: a successful delete_user deletes exactly one ref of the remote, the *)
(* first ref under refs/users/, in ls-remote order, whose account.config    *)
(* carries fullName = name; every other user ref, every group ref and       *)
(* refs/meta/group-names are as before, also when several user refs carry   *)
(* that name.                                                               *)
C26_DeleteUserOneRef ==
  DeleteUserSucceeded =>
    /\ UserRefs(pre.remote, LastOp.args.user) # {}
    /\ DOMAIN pre.remote \ DOMAIN remote = {FirstRef(UserRefs(pre.remote, LastOp.args.user))}
    /\ \A r \in DOMAIN remote \ {meta_external_ids} :
         r \in DOMAIN pre.remote /\ remote[r] = pre.remote[r]

C26_Witness ==
  /\ DeleteUserSucceeded
  /\ Cardinality(UserRefs(pre.remote, LastOp.args.user)) = 2
  /\ Cardinality(UserRefs(remote, LastOp.args.user)) = 1
  /\ meta_group_names \in DOMAIN remote
  /\ AdminGroupRefs \cap DOMAIN remote # {}

====
